---- MODULE Spec2Model ----
(***************************************************************************)
(* A model of the ingestion / aggregation pipeline of real-time-app:       *)
(*   - Publisher            (src/app_core/services/publisher.py)           *)
(*   - TimeFrameAggregator  (src/app_core/analytics/aggregator.py)         *)
(* Prices and sizes are Python Decimals: the model keeps them as decimal   *)
(* coefficients (digit sequences) with an exponent and rounds every        *)
(* arithmetic result to the context precision, as the decimal module does. *)
(***************************************************************************)
EXTENDS Integers, Sequences, FiniteSets, TLC

(***************************************************************************)
(* Bounds of the model.                                                    *)
(***************************************************************************)
\* add_trade calls made on the aggregator in one behaviour
MaxAdds == 3
\* queues created by subscribe() in one behaviour
MaxQueues == 2
\* publish() calls made by producers other than the aggregator, on both
\* publishers together
MaxPublish == 3
\* start() calls made on the SymbolAggregator in one behaviour
MaxStarts == 1
\* ticks put on the raw-trade bus for the SymbolAggregator in one behaviour
MaxTicks == 2
\* switch_symbol / stop_all_connections calls made in one behaviour
MaxCalls == 3
\* messages the exchanges send to the adapters in one behaviour
MaxRecv == 1
\* fetch_historical_data calls made in one behaviour
MaxFetches == 2
\* update_symbol / update_timeframe calls made in one behaviour
MaxUpdates == 2
\* the longest timeframe label, in characters
MaxLabelLen == 3
\* switch_symbol_async calls made in one behaviour
MaxSwitches == 2
\* start() calls made on one SymbolAggregator by a caller that does not
\* wait for stop()
MaxRestarts == 2
\* add_trade calls made with trades that differ in their timestamps only
MaxTimed == 4

(***************************************************************************)
(* Program constants.                                                      *)
(***************************************************************************)
\* getcontext().prec = 18
prec == 18
\* the ".8f" of every field of an AggregatedDataPoint
FormatDigits == 8
\* asyncio.Queue() : maxsize defaults to 0, which means "no limit"
DefaultMaxsize == 0

(***************************************************************************)
(* Natural numbers of any size: a sequence of decimal digits, the least    *)
(* significant first, with no zero at the most significant end; <<>> is 0. *)
(* (TLC's integers are 32 bits wide; an 18-digit coefficient is not.)      *)
(***************************************************************************)
RECURSIVE BStrip(_)
BStrip(a) ==
  IF a = <<>> THEN <<>>
  ELSE IF a[Len(a)] = 0 THEN BStrip(SubSeq(a, 1, Len(a) - 1)) ELSE a

BTail(a) == IF a = <<>> THEN <<>> ELSE Tail(a)
BHead(a) == IF a = <<>> THEN 0 ELSE Head(a)

RECURSIVE BAddC(_, _, _)
BAddC(a, b, c) ==
  IF a = <<>> /\ b = <<>> THEN (IF c = 0 THEN <<>> ELSE <<c>>)
  ELSE LET s == BHead(a) + BHead(b) + c
       IN  <<s % 10>> \o BAddC(BTail(a), BTail(b), s \div 10)

BAdd(a, b) == BAddC(a, b, 0)

\* a - b for a >= b
RECURSIVE BSubC(_, _, _)
BSubC(a, b, c) ==
  IF a = <<>> THEN <<>>
  ELSE LET s == BHead(a) - BHead(b) - c
       IN  IF s < 0 THEN <<s + 10>> \o BSubC(BTail(a), BTail(b), 1)
                    ELSE <<s>> \o BSubC(BTail(a), BTail(b), 0)

BSub(a, b) == BStrip(BSubC(a, b, 0))

\* -1, 0, 1 as a < b, a = b, a > b
RECURSIVE BCmpFrom(_, _, _)
BCmpFrom(a, b, i) ==
  IF i = 0 THEN 0
  ELSE IF a[i] < b[i] THEN -1
  ELSE IF a[i] > b[i] THEN 1
  ELSE BCmpFrom(a, b, i - 1)

BCmp(a, b) ==
  IF Len(a) < Len(b) THEN -1
  ELSE IF Len(a) > Len(b) THEN 1
  ELSE BCmpFrom(a, b, Len(a))

\* a * d for one digit d
RECURSIVE BMulDC(_, _, _)
BMulDC(a, d, c) ==
  IF a = <<>> THEN (IF c = 0 THEN <<>> ELSE <<c>>)
  ELSE LET s == Head(a) * d + c
       IN  <<s % 10>> \o BMulDC(Tail(a), d, s \div 10)

BMulD(a, d) == IF d = 0 THEN <<>> ELSE BMulDC(a, d, 0)

\* a * 10^k
BShl(a, k) == IF a = <<>> THEN <<>> ELSE [i \in 1..k |-> 0] \o a

RECURSIVE BMul(_, _)
BMul(a, b) ==
  IF b = <<>> THEN <<>>
  ELSE BAdd(BMulD(a, Head(b)), BShl(BMul(a, Tail(b)), 1))

\* b, 2b, ..., 9b
Multiples(b) ==
  << b, BMulD(b, 2), BMulD(b, 3), BMulD(b, 4), BMulD(b, 5),
     BMulD(b, 6), BMulD(b, 7), BMulD(b, 8), BMulD(b, 9) >>

\* one step of the long division by b: hi = divmod(a', b), h the next digit
\* of a = 10 * a' + h, bm the multiples of b
BDivStep(hi, h, bm) ==
  IF hi.r = <<>> /\ h = 0 THEN [q |-> BShl(hi.q, 1), r |-> <<>>]
  ELSE LET r0 == BStrip(<<h>> \o hi.r)
           d  == Cardinality({x \in 1..9 : BCmp(bm[x], r0) <= 0})
       IN  [q |-> BStrip(<<d>> \o hi.q),
            r |-> IF d = 0 THEN r0 ELSE BSub(r0, bm[d])]

RECURSIVE BDivModBy(_, _)
BDivModBy(a, bm) ==
  IF a = <<>> THEN [q |-> <<>>, r |-> <<>>]
  ELSE BDivStep(BDivModBy(Tail(a), bm), Head(a), bm)

\* divmod(a, b) for b > 0, from the most significant digit of a down
BDivMod(a, b) == BDivModBy(a, Multiples(b))

BOdd(a) == a # <<>> /\ a[1] % 2 = 1

\* a / b rounded to an integer, ties to the even one (ROUND_HALF_EVEN)
BRoundDiv(a, b) ==
  LET qr == BDivMod(a, b)
      c  == BCmp(BAdd(qr.r, qr.r), b)
  IN  IF c > 0 \/ (c = 0 /\ BOdd(qr.q)) THEN BAdd(qr.q, <<1>>) ELSE qr.q

\* the digits of a small natural number
RECURSIVE BNat(_)
BNat(n) == IF n = 0 THEN <<>> ELSE <<n % 10>> \o BNat(n \div 10)

(***************************************************************************)
(* decimal.Decimal, non-negative: the value m * 10^e, kept with no zero at *)
(* the low end of m so that equal values are equal records, or Infinity.   *)
(* Every arithmetic result is rounded to the context precision, ties to    *)
(* even, as Context._fix does; only construction from a string is exact.   *)
(***************************************************************************)
RECURSIVE DNorm(_, _)
DNorm(m, e) ==
  IF m = <<>> THEN [inf |-> FALSE, m |-> <<>>, e |-> 0]
  ELSE IF Head(m) = 0 THEN DNorm(Tail(m), e + 1)
  ELSE [inf |-> FALSE, m |-> m, e |-> e]

\* Decimal(0) and Decimal('Infinity')
Zero == DNorm(<<>>, 0)
Infinity == [inf |-> TRUE, m |-> <<>>, e |-> 0]

Min2(x, y) == IF x < y THEN x ELSE y

\* the exact sum and product of two finite decimals
DAddX(a, b) ==
  LET e == Min2(a.e, b.e)
  IN  DNorm(BAdd(BShl(a.m, a.e - e), BShl(b.m, b.e - e)), e)

DMulX(a, b) == DNorm(BMul(a.m, b.m), a.e + b.e)

\* Decimal("<units>.<frac>") with frac counted in units of 10^-FormatDigits
DecimalOf(units, frac) ==
  DAddX(DNorm(BNat(units), 0), DNorm(BNat(frac), -FormatDigits))

\* -1, 0, 1 as a < b, a = b, a > b
DCmp(a, b) ==
  IF a.inf THEN (IF b.inf THEN 0 ELSE 1)
  ELSE IF b.inf THEN -1
  ELSE LET e == Min2(a.e, b.e)
       IN  BCmp(BShl(a.m, a.e - e), BShl(b.m, b.e - e))

\* m / 10^k rounded to an integer, ties to even (ROUND_HALF_EVEN), for k >= 1
BRoundShr(m, k) ==
  LET kept == IF k >= Len(m) THEN <<>> ELSE SubSeq(m, k + 1, Len(m))
      half == IF k > Len(m) THEN 0 ELSE m[k]
      rest == \E i \in 1..Min2(k - 1, Len(m)) : m[i] # 0
      up   == half > 5 \/ (half = 5 /\ (rest \/ BOdd(kept)))
  IN  IF up THEN BAdd(kept, <<1>>) ELSE kept

\* the rounding of a result to the context precision
DRound(d) ==
  IF Len(d.m) <= prec THEN d
  ELSE LET k == Len(d.m) - prec
       IN  DNorm(BRoundShr(d.m, k), d.e + k)

\* Decimal.__add__, Decimal.__mul__
DAdd(a, b) == DRound(DAddX(a, b))
DMul(a, b) == DRound(DMulX(a, b))

\* Decimal.__truediv__ for b # 0: a quotient of more than prec digits with a
\* sticky last digit, then rounded
DDiv(a, b) ==
  IF a.m = <<>> THEN Zero
  ELSE LET shift == Len(b.m) - Len(a.m) + prec + 1
           qr    == IF shift >= 0 THEN BDivMod(BShl(a.m, shift), b.m)
                                   ELSE BDivMod(a.m, BShl(b.m, -shift))
           coeff == IF qr.r # <<>> /\ BHead(qr.q) % 5 = 0
                    THEN BAdd(qr.q, <<1>>) ELSE qr.q
       IN  DRound(DNorm(coeff, a.e - b.e - shift))

\* f"{d:.8f}": d rounded to FormatDigits fractional digits, ties to even; the
\* model keeps the value the string denotes
DFormat(d) ==
  IF d.inf \/ d.e >= -FormatDigits THEN d
  ELSE DNorm(BRoundShr(d.m, -FormatDigits - d.e), -FormatDigits)

\* max(a, b) and min(a, b) of Python: the first argument wins a tie
PyMax(a, b) == IF DCmp(b, a) > 0 THEN b ELSE a
PyMin(a, b) == IF DCmp(b, a) < 0 THEN b ELSE a

\* np.sum over an object array: the elements added left to right
RECURSIVE NpSumFrom(_, _)
NpSumFrom(acc, xs) ==
  IF xs = <<>> THEN acc ELSE NpSumFrom(DAdd(acc, Head(xs)), Tail(xs))

NpSum(xs) == IF xs = <<>> THEN Zero ELSE NpSumFrom(Head(xs), Tail(xs))

(***************************************************************************)
(* datetime and timedelta: whole seconds counted from a UTC midnight that  *)
(* is a multiple of a day since the epoch, and the microsecond field.      *)
(***************************************************************************)
None == [none |-> TRUE]

Datetime(day, hour, minute, second, microsecond) ==
  [s  |-> ((day * 24 + hour) * 60 + minute) * 60 + second,
   us |-> microsecond]

\* ts.minute, ts.second, ts.microsecond
MinuteOf(ts) == (ts.s \div 60) % 60
SecondOf(ts) == ts.s % 60
MicrosecondOf(ts) == ts.us

\* ts - timedelta(minutes, seconds, microseconds), when it borrows nothing
\* from the seconds
DtMinus(ts, minutes, seconds, microseconds) ==
  [s |-> ts.s - 60 * minutes - seconds, us |-> ts.us - microseconds]

\* ts + timedelta(seconds = delta)
DtPlus(ts, delta) == [s |-> ts.s + delta, us |-> ts.us]

\* a >= b on datetimes
DtGE(a, b) == a.s > b.s \/ (a.s = b.s /\ a.us >= b.us)

(***************************************************************************)
(* The inputs.                                                             *)
(***************************************************************************)
\* timeframe labels "<value><unit>": "1m", "5m", "1h", "4h", "1d"
Timeframe(value, unit) == [value |-> value, unit |-> unit]
Timeframes ==
  { Timeframe(1, "m"), Timeframe(5, "m"), Timeframe(1, "h"),
    Timeframe(4, "h"), Timeframe(1, "d") }

\* exchange timestamps: 00:00:30.250000, 00:01:10 and 05:30:00 of one day
TickTimes ==
  { Datetime(0, 0, 0, 30, 250000), Datetime(0, 0, 1, 10, 0),
    Datetime(0, 5, 30, 0, 0) }

\* (Decimal(trade.price), Decimal(trade.size)) of a trade:
\* (50000, 1), (50000.00000005, 1.00000001), (49999.5, 0)
Quotes ==
  { << DecimalOf(50000, 0), DecimalOf(1, 0) >>,
    << DecimalOf(50000, 5), DecimalOf(1, 1) >>,
    << DecimalOf(49999, 50000000), Zero >> }

AggSymbol == "BTC/USD"

\* PriceUpdate: the fields the aggregator reads
PriceUpdates ==
  { [symbol |-> AggSymbol, price |-> q[1], size |-> q[2],
     exchange_timestamp_utc |-> ts] : q \in Quotes, ts \in TickTimes }

\* trades of one price and size, at any of the timestamps
TimedUpdates ==
  { trade \in PriceUpdates :
      trade.price = DecimalOf(50000, 0) /\ trade.size = DecimalOf(1, 0) }

\* trades whose sizes go below the eighth decimal place:
\* sizes 1.00000001, 0.000000004 and 0, at one price
FineSizes ==
  { DecimalOf(1, 1), DNorm(BNat(4), -(FormatDigits + 1)), Zero }
FineUpdates ==
  { [symbol |-> AggSymbol, price |-> DecimalOf(50000, 0), size |-> size,
     exchange_timestamp_utc |-> ts] : size \in FineSizes, ts \in TickTimes }

Publishers == {"raw_trade_publisher", "aggregated_data_publisher"}
AggBus == "aggregated_data_publisher"
RawBus == "raw_trade_publisher"

\* what a producer other than the aggregator hands to publish(): publish
\* takes any object and never looks into it
MessagesOf(p) ==
  IF p = "raw_trade_publisher" THEN { [kind |-> "PriceUpdate"] }
  ELSE { [kind |-> "AggregatedDataPoint"] }

(***************************************************************************)
(* The state.                                                              *)
(***************************************************************************)
VARIABLES
  tfa,          \* the TimeFrameAggregator: its fields
  subscribers,  \* Publisher.subscribers of each publisher: a set of queues
  queues,       \* every asyncio.Queue made by subscribe(), in creation order
  published,    \* history: the messages passed to publish(), per publisher
  registered,   \* history: per queue, its publisher and the number of
                \* publish() calls before its subscribe() and unsubscribe()
  received,     \* per queue, the messages its consumer has taken with get()
  finalizations,\* history: every _finalize_and_publish_candle call
  bucket,       \* history: the trades accepted since the bucket was opened
  nAdds,        \* add_trade calls made so far
  sa,           \* the SymbolAggregator: its fields
  runTasks,     \* every task made by SymbolAggregator.start() for _run
  saCall,       \* the start() / stop() call in progress, if any
  invocations,  \* history: every add_trade call made by a _run task
  accepted,     \* history: every tick a _run task took and found to match
  stops,        \* history: the stop() calls that have returned
  mgr,          \* the ConnectionManager: its fields
  adapterTasks, \* every task made by switch_symbol for _run_adapter
  mgrCall,      \* the switch_symbol / stop_all_connections calls suspended
                \* in "await asyncio.gather(...)", oldest first
  returns,      \* history: the ConnectionManager calls that have returned
  nRecv,        \* messages the adapter tasks have received so far
  fetch,        \* the fetch_historical_data call under way, or the last one
  nFetches,     \* fetch_historical_data calls made so far
  storage,      \* the state file: what is at its path, and whether it can
                \* be written
  sm,           \* the StateManager: its state, or the failure of __init__
  ctor,         \* a TimeFrameAggregator(symbol, label) call and the first
                \* add_trade on what it made
  ctl,          \* the controller's switch_symbol_async call, and history:
                \* the symbols of the aggregators it has started
  feed,         \* the symbol the ConnectionManager serves, and whether its
                \* adapter tasks run
  publishing,   \* the publish() call that is iterating over the
                \* subscriber set, if any
  pubLog,       \* history: the publish() calls that have ended
  uiQueue,      \* UIController._ui_queue, 0 before the controller is made
  caught        \* history: the exceptions that _run has caught and printed

vars ==
  << tfa, subscribers, queues, published, registered, received,
     finalizations, bucket, nAdds,
     sa, runTasks, saCall, invocations, accepted, stops,
     mgr, adapterTasks, mgrCall, returns, nRecv,
     fetch, nFetches, storage, sm, ctor, ctl, feed,
     publishing, pubLog, uiQueue, caught >>

busVars == << subscribers, queues, published, registered, received >>
aggVars == << tfa, finalizations, bucket, nAdds >>
symVars == << sa, runTasks, saCall, invocations, accepted, stops >>
mgrVars == << mgr, adapterTasks, mgrCall, returns, nRecv >>
histVars == << fetch, nFetches >>
prefVars == << storage, sm >>
ctorVars == << ctor >>
ctlVars == << ctl, feed >>
loopVars == << publishing, pubLog, uiQueue >>
extVars == << loopVars, caught >>
appVars == << histVars, prefVars, ctorVars, ctlVars, extVars >>

(***************************************************************************)
(* Publisher                                                               *)
(***************************************************************************)
\* asyncio.Queue(maxsize)
NewQueue(maxsize) == [items |-> <<>>, maxsize |-> maxsize]

\* Queue.full()
QueueFull(q) == q.maxsize > 0 /\ Len(q.items) >= q.maxsize

\* Queue.put_nowait(item) inside publish's try / except QueueFull: pass
put_nowait(q, item) ==
  IF QueueFull(q) THEN q ELSE [q EXCEPT !.items = Append(@, item)]

\* publish that stops after the first subscriber it serves
publish_first_only(qs, subs, message) ==
  [i \in DOMAIN qs |->
     IF i \in subs /\ \A j \in subs : i <= j
     THEN put_nowait(qs[i], message) ELSE qs[i]]

\* publish that serves every queue ever handed out
publish_to_all(qs, subs, message) ==
  [i \in DOMAIN qs |-> put_nowait(qs[i], message)]

\* Publisher.publish(message) on the subscriber set subs: the queues after it
publish(qs, subs, message) ==
  [i \in DOMAIN qs |-> IF i \in subs THEN put_nowait(qs[i], message) ELSE qs[i]]

\* Publisher.subscribe()
Subscribe(p) ==
  /\ Len(queues) < MaxQueues
  /\ queues' = Append(queues, NewQueue(DefaultMaxsize))
  /\ subscribers' = [subscribers EXCEPT ![p] = @ \cup {Len(queues) + 1}]
  /\ registered' = Append(registered,
                     [bus |-> p, from |-> Len(published[p]), until |-> -1])
  /\ received' = Append(received, <<>>)
  /\ UNCHANGED << published, aggVars, symVars, mgrVars, appVars >>

\* Publisher.unsubscribe(queue): set.discard
Unsubscribe(p, q) ==
  /\ q \in DOMAIN queues
  /\ subscribers' = [subscribers EXCEPT ![p] = @ \ {q}]
  /\ registered' =
       IF q \in subscribers[p]
       THEN [registered EXCEPT ![q].until = Len(published[p])]
       ELSE registered
  /\ UNCHANGED << queues, published, received, aggVars, symVars, mgrVars, appVars >>

\* a producer calls publish(message) on publisher p
Publish(p, message) ==
  /\ Len(published["raw_trade_publisher"])
       + Len(published["aggregated_data_publisher"]) < MaxPublish
  /\ queues' = publish(queues, subscribers[p],
                       [n |-> Len(published[p]) + 1, msg |-> message])
  /\ published' = [published EXCEPT ![p] = Append(@, message)]
  /\ UNCHANGED << subscribers, registered, received, aggVars, symVars, mgrVars, appVars >>

\* a get() that takes the newest message instead of the oldest
GetNewest(q) ==
  /\ q \in DOMAIN queues
  /\ queues[q].items # <<>>
  /\ queues' = [queues EXCEPT ![q].items = SubSeq(@, 1, Len(@) - 1)]
  /\ received' =
       [received EXCEPT ![q] = Append(@, queues[q].items[Len(queues[q].items)])]
  /\ UNCHANGED << subscribers, published, registered, aggVars, symVars,
                  mgrVars, appVars >>

\* a consumer's await queue.get()
Get(q) ==
  /\ q \in DOMAIN queues
  /\ queues[q].items # <<>>
  /\ queues' = [queues EXCEPT ![q].items = Tail(@)]
  /\ received' = [received EXCEPT ![q] = Append(@, Head(queues[q].items))]
  /\ UNCHANGED << subscribers, published, registered, aggVars, symVars,
                  mgrVars, appVars >>

(***************************************************************************)
(* TimeFrameAggregator                                                     *)
(***************************************************************************)
\* _parse_timeframe: the timedelta, in seconds; other units raise ValueError
ValidUnit(tf) == tf.unit \in {"m", "h", "d"}
parse_timeframe(tf) ==
  IF tf.unit = "m" THEN 60 * tf.value
  ELSE IF tf.unit = "h" THEN 3600 * tf.value
  ELSE 86400 * tf.value

\* TimeFrameAggregator.__init__
NewAggregator(symbol, tf) ==
  [symbol            |-> symbol,
   timeframe_str     |-> tf,
   timeframe_delta   |-> parse_timeframe(tf),
   current_candle_ts |-> None,
   trades            |-> <<>>,
   last_price        |-> Zero,
   open_price        |-> Zero,
   high_price        |-> Zero,
   low_price         |-> Infinity]

\* _start_new_candle without "self.trades.clear()"
start_new_candle_keeps_trades(self, ts, price) ==
  [self EXCEPT !.current_candle_ts =
                 DtMinus(ts, MinuteOf(ts) % (self.timeframe_delta \div 60),
                         SecondOf(ts), MicrosecondOf(ts)),
               !.open_price = price,
               !.high_price = price,
               !.low_price  = price]

\* _start_new_candle(ts, price): ts minus
\* timedelta(minutes = ts.minute % (timeframe_delta.total_seconds() / 60),
\*           seconds = ts.second, microseconds = ts.microsecond)
TruncatedTs(self, ts) ==
  DtMinus(ts, MinuteOf(ts) % (self.timeframe_delta \div 60),
          SecondOf(ts), MicrosecondOf(ts))

start_new_candle(self, ts, price) ==
  [self EXCEPT !.current_candle_ts = TruncatedTs(self, ts),
               !.trades     = <<>>,
               !.open_price = price,
               !.high_price = price,
               !.low_price  = price]

\* the columns of np.array(self.trades)
PricesOf(trades) == [i \in 1..Len(trades) |-> trades[i][1]]
SizesOf(trades) == [i \in 1..Len(trades) |-> trades[i][2]]
ProductsOf(trades) ==
  [i \in 1..Len(trades) |-> DMul(trades[i][1], trades[i][2])]

\* the AggregatedDataPoint built by _finalize_and_publish_candle
DataPoint(self, vwap, total_volume) ==
  [symbol            |-> self.symbol,
   timeframe         |-> self.timeframe_str,
   timestamp_utc     |-> self.current_candle_ts,
   vwap              |-> DFormat(vwap),
   cumulative_volume |-> DFormat(total_volume),
   last_price        |-> DFormat(self.last_price),
   high_price        |-> DFormat(self.high_price),
   low_price         |-> DFormat(self.low_price),
   open_price        |-> DFormat(self.open_price)]

\* _finalize_and_publish_candle without its "if total_volume == 0: return"
finalize_any_volume(self) ==
  IF self.trades = <<>> THEN <<>>
  ELSE << DataPoint(self,
                    IF DCmp(NpSum(SizesOf(self.trades)), Zero) = 0 THEN Zero
                    ELSE DDiv(NpSum(ProductsOf(self.trades)),
                              NpSum(SizesOf(self.trades))),
                    NpSum(SizesOf(self.trades))) >>

\* _finalize_and_publish_candle: the points it hands to
\* aggregated_data_publisher.publish, none or one
finalize_and_publish_candle(self) ==
  IF self.trades = <<>> THEN <<>>
  ELSE LET total_volume == NpSum(SizesOf(self.trades))
       IN  IF DCmp(total_volume, Zero) = 0 THEN <<>>
           ELSE << DataPoint(self,
                             DDiv(NpSum(ProductsOf(self.trades)), total_volume),
                             total_volume) >>

\* add_trade, first part: open a bucket if none is open
OpenedIfNone(self, trade) ==
  IF self.current_candle_ts = None
  THEN start_new_candle(self, trade.exchange_timestamp_utc, trade.price)
  ELSE self

\* add_trade rolling over for a trade outside the bucket on either side
BelongsToOtherCandle(self, trade) ==
  \/ DtGE(trade.exchange_timestamp_utc,
          DtPlus(self.current_candle_ts, self.timeframe_delta))
  \/ ~DtGE(trade.exchange_timestamp_utc, self.current_candle_ts)

\* add_trade rolling over for every trade
BelongsToAnyCandle(self, trade) == TRUE

\* add_trade: "if trade_ts >= self.current_candle_ts + self.timeframe_delta"
BelongsToNewCandle(self, trade) ==
  DtGE(trade.exchange_timestamp_utc,
       DtPlus(self.current_candle_ts, self.timeframe_delta))

\* add_trade without the running maximum and minimum
AcceptedNoExtremes(self, trade) ==
  [self EXCEPT !.trades     = Append(@, <<trade.price, trade.size>>),
               !.last_price = trade.price]

\* add_trade keeping only the latest trade of the candle
AcceptedReplacing(self, trade) ==
  [self EXCEPT !.trades     = << <<trade.price, trade.size>> >>,
               !.last_price = trade.price,
               !.high_price = PyMax(@, trade.price),
               !.low_price  = PyMin(@, trade.price)]

\* add_trade, last part: update the current candle aggregates
Accepted(self, trade) ==
  [self EXCEPT !.trades     = Append(@, <<trade.price, trade.size>>),
               !.last_price = trade.price,
               !.high_price = PyMax(@, trade.price),
               !.low_price  = PyMin(@, trade.price)]

\* add_trade opening the next bucket with the previous bucket's open price
add_trade_stale_open(self, trade) ==
  LET opened == OpenedIfNone(self, trade)
  IN  IF BelongsToNewCandle(opened, trade)
      THEN Accepted(start_new_candle(opened, trade.exchange_timestamp_utc,
                                     opened.open_price), trade)
      ELSE Accepted(opened, trade)

\* add_trade closing the bucket at the rollover without opening the next
add_trade_closing(self, trade) ==
  LET opened == OpenedIfNone(self, trade)
  IN  IF BelongsToNewCandle(opened, trade)
      THEN [opened EXCEPT !.current_candle_ts = None, !.trades = <<>>]
      ELSE Accepted(opened, trade)

\* add_trade(trade): the aggregator after the call
add_trade(self, trade) ==
  LET opened == OpenedIfNone(self, trade)
  IN  IF BelongsToNewCandle(opened, trade)
      THEN Accepted(start_new_candle(opened, trade.exchange_timestamp_utc,
                                     trade.price), trade)
      ELSE Accepted(opened, trade)

\* add_trade publishing the bucket only after it took the trade
add_trade_points_late(self, trade) ==
  LET opened == OpenedIfNone(self, trade)
  IN  IF BelongsToNewCandle(opened, trade)
      THEN finalize_and_publish_candle(Accepted(opened, trade))
      ELSE <<>>

\* add_trade publishing the running bucket on every call
add_trade_points_each(self, trade) ==
  LET opened == OpenedIfNone(self, trade)
  IN  IF BelongsToNewCandle(opened, trade)
      THEN finalize_and_publish_candle(opened)
      ELSE finalize_and_publish_candle(Accepted(opened, trade))

\* add_trade(trade): what it publishes on the way
add_trade_points(self, trade) ==
  LET opened == OpenedIfNone(self, trade)
  IN  IF BelongsToNewCandle(opened, trade)
      THEN finalize_and_publish_candle(opened)
      ELSE <<>>

\* publish() called once for each of the points, in order
RECURSIVE publish_all(_, _, _, _)
publish_all(qs, subs, n, points) ==
  IF points = <<>> THEN qs
  ELSE publish_all(publish(qs, subs, [n |-> n + 1, msg |-> Head(points)]),
                   subs, n + 1, Tail(points))

\* a call of add_trade on the aggregator, with its publication
AddTradeWithin(trade, max) ==
  LET opened == OpenedIfNone(tfa, trade)
      rolls  == BelongsToNewCandle(opened, trade)
      p      == "aggregated_data_publisher"
  IN  /\ nAdds < max
      /\ \E points \in {add_trade_points(tfa, trade)} :
         \E after \in {add_trade(tfa, trade)} :
           /\ tfa' = after
           /\ queues' = publish_all(queues, subscribers[p],
                                    Len(published[p]), points)
           /\ published' = [published EXCEPT ![p] = @ \o points]
           /\ finalizations' =
                IF rolls
                THEN Append(finalizations,
                            [before  |-> opened,
                             ticks   |-> bucket,
                             trigger |-> trade,
                             points  |-> points,
                             after   |-> after])
                ELSE finalizations
      /\ bucket' =
           IF tfa.current_candle_ts = None \/ rolls
           THEN <<trade>> ELSE Append(bucket, trade)
      /\ nAdds' = nAdds + 1
      /\ UNCHANGED << subscribers, registered, received, symVars, mgrVars, appVars >>

\* add_trade called by a producer of any trades
AddTrade(trade) == AddTradeWithin(trade, MaxAdds)

(***************************************************************************)
(* SymbolAggregator                                                        *)
(***************************************************************************)
\* SymbolAggregator("BTC/USD", ["1m", "5m"])
OwnedTimeframes == << Timeframe(1, "m"), Timeframe(5, "m") >>

\* the PriceUpdates producers put on the raw-trade bus: two trades of the
\* aggregator's symbol, hours apart, and one trade of another symbol
ForeignSymbol == "ETH/USD"
RawTicks ==
  { [symbol |-> AggSymbol, price |-> DecimalOf(50000, 0),
     size |-> DecimalOf(1, 0),
     exchange_timestamp_utc |-> Datetime(0, 0, 0, 30, 250000)],
    [symbol |-> AggSymbol, price |-> DecimalOf(50000, 5),
     size |-> DecimalOf(1, 1),
     exchange_timestamp_utc |-> Datetime(0, 5, 30, 0, 0)],
    [symbol |-> ForeignSymbol, price |-> DecimalOf(50000, 0),
     size |-> DecimalOf(1, 0),
     exchange_timestamp_utc |-> Datetime(0, 0, 1, 10, 0)] }

\* SymbolAggregator.__init__; task 0 is None, and subscriber_queue 0 is the
\* attribute that start() has not set yet
NewSymbolAggregator(symbol, timeframes) ==
  [symbol           |-> symbol,
   aggs             |-> [i \in DOMAIN timeframes |->
                           NewAggregator(symbol, timeframes[i])],
   task             |-> 0,
   subscriber_queue |-> 0]

\* asyncio.create_task(self._run()): the task has not run yet
NewRunTask(q) ==
  [queue |-> q, pc |-> "pending", tick |-> None, cancel |-> FALSE, ended |-> ""]

\* _run without its "if trade.symbol == self.symbol"
TakeAny(items, symbol) == items

\* _run: ticks of another symbol are taken from the queue and passed over;
\* what is left starts with the first tick of the aggregator's symbol
RECURSIVE SkipOthers(_, _)
SkipOthers(items, symbol) ==
  IF items = <<>> THEN <<>>
  ELSE IF Head(items).msg.symbol = symbol THEN items
  ELSE SkipOthers(Tail(items), symbol)

\* a gather that runs add_trade of the first aggregator only
DistributeToFirst(aggs, trade) ==
  [i \in {j \in DOMAIN aggs : j = 1} |->
     [agg    |-> i,
      after  |-> add_trade(aggs[i], trade),
      points |-> add_trade_points(aggs[i], trade)]]

\* a gather that gives up at the first aggregator whose bucket rolled over
DistributeUntilRollover(aggs, trade) ==
  [i \in {j \in DOMAIN aggs :
            \A k \in 1..(j - 1) : add_trade_points(aggs[k], trade) = <<>>} |->
     [agg    |-> i,
      after  |-> add_trade(aggs[i], trade),
      points |-> add_trade_points(aggs[i], trade)]]

\* _run: "tasks = [agg.add_trade(trade) for agg in ...]; await
\* asyncio.gather(*tasks)": one add_trade call per owned aggregator
Distribute(aggs, trade) ==
  [i \in DOMAIN aggs |->
     [agg    |-> i,
      after  |-> add_trade(aggs[i], trade),
      points |-> add_trade_points(aggs[i], trade)]]

RECURSIVE PointsFrom(_)
PointsFrom(calls) ==
  IF calls = <<>> THEN <<>> ELSE Head(calls).points \o PointsFrom(Tail(calls))

\* SymbolAggregator.start(): subscribe to the raw-trade bus, create the task
StartWithin(max) ==
  /\ saCall = "idle"
  /\ Len(runTasks) < max
  /\ queues' = Append(queues, NewQueue(DefaultMaxsize))
  /\ subscribers' = [subscribers EXCEPT ![RawBus] = @ \cup {Len(queues) + 1}]
  /\ registered' = Append(registered,
                     [bus |-> RawBus, from |-> Len(published[RawBus]),
                      until |-> -1])
  /\ received' = Append(received, <<>>)
  /\ runTasks' = Append(runTasks, NewRunTask(Len(queues) + 1))
  /\ sa' = [sa EXCEPT !.subscriber_queue = Len(queues) + 1,
                      !.task = Len(runTasks) + 1]
  /\ UNCHANGED << published, saCall, invocations, accepted, stops,
                  aggVars, mgrVars, appVars >>

\* start() as the controller calls it, on an aggregator it has just made
Start == StartWithin(MaxStarts)

\* stop() that forgets raw_trade_publisher.unsubscribe
StopBeginStillSubscribed ==
  /\ saCall = "idle"
  /\ sa.subscriber_queue # 0
  /\ IF sa.task # 0
     THEN /\ runTasks' = [runTasks EXCEPT ![sa.task].cancel = TRUE]
          /\ saCall' = "stopping"
          /\ UNCHANGED stops
     ELSE /\ stops' = stops \cup {[task |-> 0, queue |-> sa.subscriber_queue]}
          /\ UNCHANGED << runTasks, saCall >>
  /\ UNCHANGED << subscribers, registered, queues, published, received, sa,
                  invocations, accepted, aggVars, mgrVars, appVars >>

\* SymbolAggregator.stop() up to "await self._task": unsubscribe, cancel the
\* task; with no task it returns at once.  Before any start() the attribute
\* _subscriber_queue does not exist and stop() raises AttributeError.
StopBegin ==
  /\ saCall = "idle"
  /\ sa.subscriber_queue # 0
  /\ subscribers' =
       [subscribers EXCEPT ![RawBus] = @ \ {sa.subscriber_queue}]
  /\ registered' =
       IF sa.subscriber_queue \in subscribers[RawBus]
       THEN [registered EXCEPT
               ![sa.subscriber_queue].until = Len(published[RawBus])]
       ELSE registered
  /\ IF sa.task # 0
     THEN /\ runTasks' = [runTasks EXCEPT ![sa.task].cancel = TRUE]
          /\ saCall' = "stopping"
          /\ UNCHANGED stops
     ELSE /\ stops' = stops \cup {[task |-> 0, queue |-> sa.subscriber_queue]}
          /\ UNCHANGED << runTasks, saCall >>
  /\ UNCHANGED << queues, published, received, sa, invocations, accepted,
                  aggVars, mgrVars, appVars >>

\* stop() after "await self._task": the task has ended; self._task = None
StopEnd ==
  /\ saCall = "stopping"
  /\ runTasks[sa.task].pc = "done"
  /\ sa' = [sa EXCEPT !.task = 0]
  /\ stops' = stops \cup {[task |-> sa.task, queue |-> sa.subscriber_queue]}
  /\ saCall' = "idle"
  /\ UNCHANGED << busVars, runTasks, invocations, accepted, aggVars, mgrVars, appVars >>

\* _run that reads the tick at the head of its queue and leaves it there
RunStepPeeking(r) ==
  /\ r \in DOMAIN runTasks
  /\ ~runTasks[r].cancel
  /\ \/ runTasks[r].pc \in {"pending", "gathered"}
     \/ runTasks[r].pc = "get" /\ queues[runTasks[r].queue].items # <<>>
  /\ LET q     == runTasks[r].queue
         items == queues[q].items
         rest  == SkipOthers(items, sa.symbol)
         taken == Len(items) - Len(rest) + (IF rest = <<>> THEN 0 ELSE 1)
     IN  /\ queues' = [queues EXCEPT ![q].items =
                         SubSeq(items, Len(items) - Len(rest) + 1, Len(items))]
         /\ received' = [received EXCEPT ![q] = @ \o SubSeq(items, 1, taken)]
         /\ IF rest = <<>>
            THEN /\ runTasks' = [runTasks EXCEPT ![r].pc = "get", ![r].tick = None]
                 /\ UNCHANGED accepted
            ELSE /\ runTasks' = [runTasks EXCEPT ![r].pc = "gather",
                                                 ![r].tick = Head(rest)]
                 /\ accepted' = Append(accepted, [task |-> r, tick |-> Head(rest)])
  /\ UNCHANGED << subscribers, published, registered, sa, saCall, invocations,
                  stops, aggVars, mgrVars, appVars >>

\* a _run that a put_nowait on its queue never wakes from get(): it takes
\* what the queue holds when it starts or comes back from gather, and no more
RunStepNeverWoken(r) ==
  /\ r \in DOMAIN runTasks
  /\ ~runTasks[r].cancel
  /\ runTasks[r].pc \in {"pending", "gathered"}
  /\ LET q     == runTasks[r].queue
         items == queues[q].items
         rest  == SkipOthers(items, sa.symbol)
         taken == Len(items) - Len(rest) + (IF rest = <<>> THEN 0 ELSE 1)
     IN  /\ queues' = [queues EXCEPT ![q].items = SubSeq(items, taken + 1, Len(items))]
         /\ received' = [received EXCEPT ![q] = @ \o SubSeq(items, 1, taken)]
         /\ IF rest = <<>>
            THEN /\ runTasks' = [runTasks EXCEPT ![r].pc = "get", ![r].tick = None]
                 /\ UNCHANGED accepted
            ELSE /\ runTasks' = [runTasks EXCEPT ![r].pc = "gather",
                                                 ![r].tick = Head(rest)]
                 /\ accepted' = Append(accepted, [task |-> r, tick |-> Head(rest)])
  /\ UNCHANGED << subscribers, published, registered, sa, saCall, invocations,
                  stops, aggVars, mgrVars, appVars >>

\* a step of _run up to its next suspension: it starts, or resumes after
\* gather (task_done), or is woken at "await self._subscriber_queue.get()";
\* it takes ticks until one matches (and suspends in gather) or the queue is
\* empty (and suspends in get)
RunStep(r) ==
  /\ r \in DOMAIN runTasks
  /\ ~runTasks[r].cancel
  /\ \/ runTasks[r].pc \in {"pending", "gathered"}
     \/ runTasks[r].pc = "get" /\ queues[runTasks[r].queue].items # <<>>
  /\ LET q     == runTasks[r].queue
         items == queues[q].items
         rest  == SkipOthers(items, sa.symbol)
         taken == Len(items) - Len(rest) + (IF rest = <<>> THEN 0 ELSE 1)
     IN  /\ queues' = [queues EXCEPT ![q].items = SubSeq(items, taken + 1, Len(items))]
         /\ received' = [received EXCEPT ![q] = @ \o SubSeq(items, 1, taken)]
         /\ IF rest = <<>>
            THEN /\ runTasks' = [runTasks EXCEPT ![r].pc = "get", ![r].tick = None]
                 /\ UNCHANGED accepted
            ELSE /\ runTasks' = [runTasks EXCEPT ![r].pc = "gather",
                                                 ![r].tick = Head(rest)]
                 /\ accepted' = Append(accepted, [task |-> r, tick |-> Head(rest)])
  /\ UNCHANGED << subscribers, published, registered, sa, saCall, invocations,
                  stops, aggVars, mgrVars, appVars >>

\* the add_trade coroutines that gather scheduled run, one after the other
\* and each without suspending, in the order of the aggregators
Children(r) ==
  /\ r \in DOMAIN runTasks
  /\ runTasks[r].pc = "gather"
  /\ ~runTasks[r].cancel
  /\ \E calls \in {Distribute(sa.aggs, runTasks[r].tick.msg)} :
       /\ sa' = [sa EXCEPT !.aggs = [i \in DOMAIN @ |->
                   IF i \in DOMAIN calls THEN calls[i].after ELSE @[i]]]
       /\ queues' = publish_all(queues, subscribers[AggBus],
                                Len(published[AggBus]), PointsFrom(calls))
       /\ published' = [published EXCEPT ![AggBus] = @ \o PointsFrom(calls)]
       /\ invocations' = invocations \o
            [i \in DOMAIN calls |->
               [agg |-> calls[i].agg, tick |-> runTasks[r].tick, task |-> r]]
  /\ runTasks' = [runTasks EXCEPT ![r].pc = "gathered"]
  /\ UNCHANGED << subscribers, registered, received, saCall, accepted, stops,
                  aggVars, mgrVars, appVars >>

\* a cancelled _run that finalizes and publishes the open buckets on its
\* way out
RunCancelledFlushing(r) ==
  /\ r \in DOMAIN runTasks
  /\ runTasks[r].cancel
  /\ runTasks[r].pc # "done"
  /\ runTasks' = [runTasks EXCEPT ![r].pc = "done", ![r].ended = runTasks[r].pc]
  /\ \E flushed \in {PointsFrom([i \in DOMAIN sa.aggs |->
                        [points |-> IF sa.aggs[i].current_candle_ts = None
                                    THEN <<>>
                                    ELSE finalize_and_publish_candle(sa.aggs[i])]])} :
       /\ queues' = publish_all(queues, subscribers[AggBus],
                                Len(published[AggBus]), flushed)
       /\ published' = [published EXCEPT ![AggBus] = @ \o flushed]
  /\ UNCHANGED << subscribers, registered, received, sa, saCall, invocations,
                  accepted, stops, aggVars, mgrVars, appVars >>

\* the cancelled task's next step raises CancelledError where it was
\* suspended (a task that never ran does not run at all; add_trade
\* coroutines that gather scheduled and that have not run never run):
\* "except asyncio.CancelledError: break"
RunCancelled(r) ==
  /\ r \in DOMAIN runTasks
  /\ runTasks[r].cancel
  /\ runTasks[r].pc # "done"
  /\ runTasks' = [runTasks EXCEPT ![r].pc = "done", ![r].ended = runTasks[r].pc]
  /\ UNCHANGED << busVars, sa, saCall, invocations, accepted, stops,
                  aggVars, mgrVars, appVars >>

(***************************************************************************)
(* Exchange adapters: what connect_and_subscribe does with one message     *)
(***************************************************************************)
\* datetime.fromtimestamp(ms / 1000, tz=timezone.utc)
FromMillis(ms) == [s |-> ms \div 1000, us |-> (ms % 1000) * 1000]

\* what the socket delivers: bytes that are not JSON, or a JSON object (its
\* keys and values), or a JSON array (its items), or the text "ping"
NotJson == [kind |-> "invalid"]
Ping == [kind |-> "ping"]
JsonObject(members) == [kind |-> "dict", d |-> members]
JsonArray(items) == [kind |-> "list", l |-> items]

\* PriceUpdate(symbol=..., exchange=..., price=..., size=..., ...); a decimal
\* string is written as the number it denotes
PriceUpdate(symbol, exchange, price, size, ts) ==
  [symbol |-> symbol, exchange |-> exchange, price |-> price, size |-> size,
   exchange_timestamp_utc |-> ts]

\* the outcome of handling one message: the ticks yielded, in order, and the
\* exception that then left the generator ("" when none did)
Yields(ticks) == [ticks |-> ticks, raised |-> ""]
Raises(ticks, exc) == [ticks |-> ticks, raised |-> exc]

\* BinanceAdapter: orjson.loads, message.get("e") == "trade", _normalize_trade
BinanceHandle(symbol, raw) ==
  IF raw.kind \in {"invalid", "ping"} THEN Raises(<<>>, "JSONDecodeError")
  ELSE IF raw.kind # "dict" THEN Raises(<<>>, "AttributeError")
  ELSE IF "e" \notin DOMAIN raw.d \/ raw.d["e"] # "trade" THEN Yields(<<>>)
  ELSE IF ~({"T", "m", "p", "q"} \subseteq DOMAIN raw.d)
       THEN Raises(<<>>, "KeyError")
  ELSE Yields(<< PriceUpdate(symbol, "Binance", raw.d["p"], raw.d["q"],
                             FromMillis(raw.d["T"])) >>)

\* KrakenAdapter._normalize_trade on [<price>, <volume>, <time>, <side>, ...];
\* the time is written in milliseconds
RECURSIVE KrakenTrades(_, _)
KrakenTrades(symbol, trades) ==
  IF trades = <<>> THEN Yields(<<>>)
  ELSE IF Len(Head(trades)) < 4 THEN Raises(<<>>, "IndexError")
  ELSE LET rest == KrakenTrades(symbol, Tail(trades))
       IN  [ticks  |-> << PriceUpdate(symbol, "Kraken", Head(trades)[1],
                                      Head(trades)[2],
                                      FromMillis(Head(trades)[3])) >>
                       \o rest.ticks,
            raised |-> rest.raised]

\* KrakenAdapter: orjson.loads, isinstance(message, list) and
\* message[2] == "trade", for trade in message[1]
KrakenHandle(symbol, raw) ==
  IF raw.kind \in {"invalid", "ping"} THEN Raises(<<>>, "JSONDecodeError")
  ELSE IF raw.kind # "list" THEN Yields(<<>>)
  ELSE IF Len(raw.l) < 3 THEN Raises(<<>>, "IndexError")
  ELSE IF raw.l[3] # "trade" THEN Yields(<<>>)
  ELSE KrakenTrades(symbol, raw.l[2])

\* OKXAdapter._normalize_trade on each item of message["data"]
RECURSIVE OkxTrades(_, _)
OkxTrades(symbol, trades) ==
  IF trades = <<>> THEN Yields(<<>>)
  ELSE IF ~({"ts", "px", "sz", "side"} \subseteq DOMAIN Head(trades))
       THEN Raises(<<>>, "KeyError")
  ELSE LET rest == OkxTrades(symbol, Tail(trades))
       IN  [ticks  |-> << PriceUpdate(symbol, "OKX", Head(trades)["px"],
                                      Head(trades)["sz"],
                                      FromMillis(Head(trades)["ts"])) >>
                       \o rest.ticks,
            raised |-> rest.raised]

\* OKXAdapter: b"ping" answered with b"pong"; orjson.loads;
\* message.get("arg", {}).get("channel") == "trades"; message["data"]
OkxHandle(symbol, raw) ==
  IF raw.kind = "ping" THEN Yields(<<>>)
  ELSE IF raw.kind = "invalid" THEN Raises(<<>>, "JSONDecodeError")
  ELSE IF raw.kind # "dict" THEN Raises(<<>>, "AttributeError")
  ELSE IF "arg" \notin DOMAIN raw.d THEN Yields(<<>>)
  ELSE IF "channel" \notin DOMAIN raw.d["arg"] THEN Yields(<<>>)
  ELSE IF raw.d["arg"]["channel"] # "trades" THEN Yields(<<>>)
  ELSE IF "data" \notin DOMAIN raw.d THEN Raises(<<>>, "KeyError")
  ELSE OkxTrades(symbol, raw.d["data"])

Handle(exchange, symbol, raw) ==
  CASE exchange = "Binance" -> BinanceHandle(symbol, raw)
    [] exchange = "Kraken"  -> KrakenHandle(symbol, raw)
    [] exchange = "OKX"     -> OkxHandle(symbol, raw)

\* the messages the model's exchanges send
BinanceTrade ==
  JsonObject([k \in {"e", "T", "m", "p", "q"} |->
    CASE k = "e" -> "trade" [] k = "T" -> 30250 [] k = "m" -> FALSE
      [] k = "p" -> DecimalOf(50000, 0) [] k = "q" -> DecimalOf(1, 0)])
SubscribeAck == JsonObject([k \in {"event"} |-> "subscribe"])
KrakenTrade ==
  JsonArray(<< 0,
               << << DecimalOf(50000, 0), DecimalOf(1, 0), 30250, "b" >>,
                  << DecimalOf(50000, 0), DecimalOf(1, 0), 30250, "b" >>,
                  << DecimalOf(50000, 5), DecimalOf(1, 1), 70000, "s" >> >>,
               "trade", "XBT/USD" >>)
KrakenShortTrade ==
  JsonArray(<< 0,
               << << DecimalOf(50000, 0), DecimalOf(1, 0), 30250, "b" >>,
                  << DecimalOf(50000, 0) >> >>,
               "trade", "XBT/USD" >>)
OkxTrade ==
  JsonObject([k \in {"arg", "data"} |->
    CASE k = "arg" -> [a \in {"channel"} |-> "trades"]
      [] k = "data" ->
           << [f \in {"ts", "px", "sz", "side"} |->
                 CASE f = "ts" -> 70000 [] f = "px" -> DecimalOf(50000, 0)
                   [] f = "sz" -> DecimalOf(1, 0) [] f = "side" -> "buy"] >>])
\* {"event": "subscribe", "arg": {"channel": "trades", ...}}
OkxSubscribed ==
  JsonObject([k \in {"event", "arg"} |->
    CASE k = "event" -> "subscribe"
      [] k = "arg" -> [a \in {"channel"} |-> "trades"]])

RawMessages(exchange) ==
  CASE exchange = "Binance" ->
         { BinanceTrade, NotJson, JsonArray(<<>>) }
    [] exchange = "Kraken" ->
         { KrakenTrade, KrakenShortTrade, SubscribeAck }
    [] exchange = "OKX" ->
         { OkxTrade, OkxSubscribed, Ping }

(***************************************************************************)
(* ConnectionManager                                                       *)
(***************************************************************************)
\* self._current_symbol = None
NoSymbol == ""

\* the keys of ADAPTER_MAP
ADAPTER_MAP ==
  { "Binance", "Bitget", "Bitstamp", "Bitvavo", "Coinbase Exchange",
    "Kraken", "OKX" }

\* config.exchange_integrations: each trading symbol with the ordered list of
\* the exchanges serving it
exchange_integrations ==
  [symbol \in {"BTC/USD", "ETH/USD"} |->
     IF symbol = "BTC/USD" THEN << "Binance", "Kraken" >> ELSE << "OKX" >>]

\* the symbols the callers pass to switch_symbol: the configured ones and one
\* that the configuration does not know
Symbols == DOMAIN exchange_integrations \cup {"DOGE/USD"}

\* config.exchange_integrations.get(symbol, []) and "if name in ADAPTER_MAP"
AdaptersFor(symbol) ==
  LET names == IF symbol \in DOMAIN exchange_integrations
               THEN exchange_integrations[symbol] ELSE <<>>
  IN  SelectSeq(names, LAMBDA name : name \in ADAPTER_MAP)

\* ConnectionManager.__init__
NewConnectionManager == [tasks |-> <<>>, current_symbol |-> NoSymbol]

\* asyncio.create_task(self._run_adapter(adapter)): the task has not run yet;
\* "outlived" is history: the task has yielded a tick after a task created
\* with it had ended on an exception of its own
NewAdapterTask(exchange, symbol) ==
  [exchange |-> exchange, symbol |-> symbol, pc |-> "pending",
   cancel |-> FALSE, ended |-> "", attempts |-> 0, yielded |-> <<>>,
   outlived |-> FALSE]

\* the tasks that have not ended
Running(tasks) == { t \in DOMAIN tasks : tasks[t].pc # "done" }

\* "for task in self._tasks: task.cancel()"
CancelAll(tasks, ids) ==
  [t \in DOMAIN tasks |->
     IF (\E i \in DOMAIN ids : ids[i] = t) /\ tasks[t].pc # "done"
     THEN [tasks[t] EXCEPT !.cancel = TRUE] ELSE tasks[t]]

\* switch_symbol after "await self.stop_all_connections()": record the
\* symbol, create one task per adapter and track it
StartAdapters(m, tasks, symbol) ==
  LET names == AdaptersFor(symbol)
  IN  [mgr   |-> [tasks |-> m.tasks \o
                            [i \in DOMAIN names |-> Len(tasks) + i],
                  current_symbol |-> symbol],
       tasks |-> tasks \o
                 [i \in DOMAIN names |-> NewAdapterTask(names[i], symbol)]]

\* stop_all_connections after its gather: "self._tasks = []" and
\* "self._current_symbol = None"
Cleared(m) == [tasks |-> <<>>, current_symbol |-> NoSymbol]

\* the history fields of a task are kept while the task runs or the manager
\* tracks it; of a task that has ended and that the manager has dropped, only
\* what it yielded is kept
Kept(m, tasks) ==
  [t \in DOMAIN tasks |->
     IF tasks[t].pc = "done" /\ (\A i \in DOMAIN m.tasks : m.tasks[i] # t)
     THEN [tasks[t] EXCEPT !.cancel = FALSE, !.ended = "", !.attempts = 0,
                           !.outlived = FALSE]
     ELSE tasks[t]]

\* the tasks that run and that the manager does not track
Untracked(m, tasks) ==
  { t \in Running(tasks) : \A i \in DOMAIN m.tasks : m.tasks[i] # t }

\* the record of a call that returns: the manager when it was called and
\* when it returns, whether it cancelled tasks, the tasks it created, and the
\* tasks running untracked when it returns
Returned(call, m, tasks, created) ==
  [op |-> call.op, symbol |-> call.symbol, was |-> call.was, now |-> m,
   cancelled |-> call.cancelled, created |-> created,
   untracked |-> Untracked(m, tasks)]

\* the calls suspended in gather resume, oldest first, each running to its
\* return before the next resumes
RECURSIVE ResumeAll(_, _, _, _)
ResumeAll(calls, m, tasks, rets) ==
  IF calls = <<>> THEN [mgr |-> m, tasks |-> Kept(m, tasks), returns |-> rets]
  ELSE LET call == Head(calls)
           next == IF call.op = "switch_symbol"
                   THEN StartAdapters(Cleared(m), tasks, call.symbol)
                   ELSE [mgr |-> Cleared(m), tasks |-> tasks]
           made == (DOMAIN next.tasks) \ (DOMAIN tasks)
       IN  ResumeAll(Tail(calls), next.mgr, next.tasks,
                     Append(rets, Returned(call, next.mgr, next.tasks, made)))

\* switch_symbol that does not look at _current_symbol
SwitchSymbolAlways(symbol) ==
  /\ Len(returns) + Len(mgrCall) < MaxCalls
  /\ LET call == [op |-> "switch_symbol", symbol |-> symbol, was |-> mgr,
                  cancelled |-> FALSE]
     IN  IF mgr.tasks = <<>>
         THEN LET next == StartAdapters(mgr, adapterTasks, symbol)
              IN  /\ mgr' = next.mgr
                  /\ adapterTasks' = next.tasks
                  /\ returns' = Append(returns,
                       Returned(call, next.mgr, next.tasks,
                                (DOMAIN next.tasks) \ (DOMAIN adapterTasks)))
                  /\ UNCHANGED mgrCall
         ELSE /\ adapterTasks' = CancelAll(adapterTasks, mgr.tasks)
              /\ mgrCall' = Append(mgrCall, [call EXCEPT !.cancelled = TRUE])
              /\ UNCHANGED << mgr, returns >>
  /\ UNCHANGED << appVars, tfa, busVars, finalizations, bucket, nAdds, symVars, nRecv >>

\* ConnectionManager.switch_symbol up to its return or to its suspension in
\* the gather of stop_all_connections
SwitchSymbol(symbol) ==
  /\ Len(returns) + Len(mgrCall) < MaxCalls
  /\ LET call == [op |-> "switch_symbol", symbol |-> symbol, was |-> mgr,
                  cancelled |-> FALSE]
     IN  IF mgr.current_symbol = symbol
         THEN /\ returns' = Append(returns,
                              Returned(call, mgr, adapterTasks, {}))
              /\ UNCHANGED << mgr, adapterTasks, mgrCall >>
         ELSE IF mgr.tasks = <<>>
         THEN LET next == StartAdapters(mgr, adapterTasks, symbol)
              IN  /\ mgr' = next.mgr
                  /\ adapterTasks' = next.tasks
                  /\ returns' = Append(returns,
                       Returned(call, next.mgr, next.tasks,
                                (DOMAIN next.tasks) \ (DOMAIN adapterTasks)))
                  /\ UNCHANGED mgrCall
         ELSE /\ adapterTasks' = CancelAll(adapterTasks, mgr.tasks)
              /\ mgrCall' = Append(mgrCall, [call EXCEPT !.cancelled = TRUE])
              /\ UNCHANGED << mgr, returns >>
  /\ UNCHANGED << appVars, tfa, busVars, finalizations, bucket, nAdds, symVars, nRecv >>

\* ConnectionManager.stop_all_connections up to its return ("if not
\* self._tasks: return") or to its suspension in the gather
StopAllConnections ==
  /\ Len(returns) + Len(mgrCall) < MaxCalls
  /\ LET call == [op |-> "stop_all_connections", symbol |-> NoSymbol,
                  was |-> mgr, cancelled |-> FALSE]
     IN  IF mgr.tasks = <<>>
         THEN /\ returns' = Append(returns,
                              Returned(call, mgr, adapterTasks, {}))
              /\ UNCHANGED << mgr, adapterTasks, mgrCall >>
         ELSE /\ adapterTasks' = CancelAll(adapterTasks, mgr.tasks)
              /\ mgrCall' = Append(mgrCall, [call EXCEPT !.cancelled = TRUE])
              /\ UNCHANGED << mgr, returns >>
  /\ UNCHANGED << appVars, tfa, busVars, finalizations, bucket, nAdds, symVars, nRecv >>

\* every gathered task has ended: the suspended calls run to their returns
GatherDone ==
  /\ mgrCall # <<>>
  /\ \A i \in DOMAIN mgr.tasks : adapterTasks[mgr.tasks[i]].pc = "done"
  /\ LET out == ResumeAll(mgrCall, mgr, adapterTasks, returns)
     IN  /\ mgr' = out.mgr
         /\ adapterTasks' = out.tasks
         /\ returns' = out.returns
  /\ mgrCall' = <<>>
  /\ UNCHANGED << appVars, tfa, busVars, finalizations, bucket, nAdds, symVars, nRecv >>

\* an exception that ends one task together with every other task
EndsAll(tasks, t, exc) ==
  [u \in DOMAIN tasks |->
     IF tasks[u].pc = "done" THEN tasks[u]
     ELSE [tasks[u] EXCEPT !.pc = "done", !.ended = exc]]

\* _run_adapter: an exception that leaves connect_and_subscribe is logged
\* ("except Exception: logging.exception") and the task ends
Ends(tasks, t, exc) ==
  [tasks EXCEPT ![t].pc = "done", ![t].ended = exc]

\* on_exception(expo, (...), max_tries=8)
max_tries == 8

\* the first step of a task: _run_adapter calls connect_and_subscribe().  The
\* wrapper that on_exception put around the async generator function makes
\* this one call, which only creates the generator; iterating it then runs
\* to websockets.connect
AdapterStart(t) ==
  /\ t \in DOMAIN adapterTasks
  /\ adapterTasks[t].pc = "pending"
  /\ ~adapterTasks[t].cancel
  /\ adapterTasks' = [adapterTasks EXCEPT ![t].pc = "connecting",
                                          ![t].attempts = @ + 1]
  /\ UNCHANGED << appVars, tfa, busVars, finalizations, bucket, nAdds, symVars,
                  mgr, mgrCall, returns, nRecv >>

\* the connection is made (and the subscription sent): await websocket.recv()
Connected(t) ==
  /\ t \in DOMAIN adapterTasks
  /\ adapterTasks[t].pc = "connecting"
  /\ ~adapterTasks[t].cancel
  /\ adapterTasks' = [adapterTasks EXCEPT ![t].pc = "recv"]
  /\ UNCHANGED << appVars, tfa, busVars, finalizations, bucket, nAdds, symVars,
                  mgr, mgrCall, returns, nRecv >>

\* a manager that starts a new task for the exchange of a task that failed
TransportFailureRestarted(t) ==
  /\ t \in DOMAIN adapterTasks
  /\ adapterTasks[t].pc \in {"connecting", "recv"}
  /\ ~adapterTasks[t].cancel
  /\ adapterTasks' =
       Kept(mgr, Ends(adapterTasks, t,
                      IF adapterTasks[t].pc = "connecting"
                      THEN "ConnectionRefusedError"
                      ELSE "ConnectionClosedError"))
       \o << NewAdapterTask(adapterTasks[t].exchange, adapterTasks[t].symbol) >>
  /\ UNCHANGED << appVars, tfa, busVars, finalizations, bucket, nAdds, symVars,
                  mgr, mgrCall, returns, nRecv >>

\* the transport fails while the generator is iterated: ConnectionRefusedError
\* from websockets.connect, ConnectionClosedError from recv().  The wrapper
\* made by on_exception returned the generator object long before and
\* catches nothing of this: the exception leaves the generator
TransportFailure(t) ==
  /\ t \in DOMAIN adapterTasks
  /\ adapterTasks[t].pc \in {"connecting", "recv"}
  /\ ~adapterTasks[t].cancel
  /\ adapterTasks' =
       Kept(mgr, Ends(adapterTasks, t,
                      IF adapterTasks[t].pc = "connecting"
                      THEN "ConnectionRefusedError"
                      ELSE "ConnectionClosedError"))
  /\ UNCHANGED << appVars, tfa, busVars, finalizations, bucket, nAdds, symVars,
                  mgr, mgrCall, returns, nRecv >>

\* _run_adapter that publishes a tick only when it differs from the last one
\* published
RECURSIVE PublishedNew(_, _)
PublishedNew(history, ticks) ==
  IF ticks = <<>> THEN <<>>
  ELSE IF history # <<>> /\ Head(ticks) = history[Len(history)]
       THEN PublishedNew(history, Tail(ticks))
  ELSE << Head(ticks) >> \o PublishedNew(Append(history, Head(ticks)), Tail(ticks))

\* _run_adapter: "async for trade in ...: await
\* raw_trade_publisher.publish(trade)"
PublishedOf(history, ticks) == ticks

\* a task created by the same switch_symbol call as t, for another exchange,
\* has ended on an exception other than its cancellation
SiblingFailed(t) ==
  \E u \in DOMAIN adapterTasks :
    /\ u # t
    /\ \E r \in DOMAIN returns : {t, u} \subseteq returns[r].created
    /\ adapterTasks[u].pc = "done"
    /\ adapterTasks[u].ended # "CancelledError"

\* a message arrives: the generator handles it, each tick it yields is
\* published at once, and an exception ends the task
Recv(t, raw) ==
  /\ t \in DOMAIN adapterTasks
  /\ adapterTasks[t].pc = "recv"
  /\ ~adapterTasks[t].cancel
  /\ nRecv < MaxRecv
  /\ nRecv' = nRecv + 1
  /\ LET out  == Handle(adapterTasks[t].exchange, adapterTasks[t].symbol, raw)
         sent == PublishedOf(published[RawBus], out.ticks)
         seen == [adapterTasks EXCEPT
                    ![t].yielded = @ \o out.ticks,
                    ![t].outlived = @ \/ (out.ticks # <<>> /\ SiblingFailed(t))]
     IN  /\ queues' = publish_all(queues, subscribers[RawBus],
                                  Len(published[RawBus]), sent)
         /\ published' = [published EXCEPT ![RawBus] = @ \o sent]
         /\ adapterTasks' =
              IF out.raised = "" THEN seen
              ELSE Kept(mgr, Ends(seen, t, out.raised))
  /\ UNCHANGED << appVars, tfa, subscribers, registered, received, finalizations,
                  bucket, nAdds, symVars, mgr, mgrCall, returns >>

\* the cancelled task's next step raises CancelledError where it was
\* suspended (a task that never ran does not run at all):
\* "except asyncio.CancelledError: pass"
AdapterCancelled(t) ==
  /\ t \in DOMAIN adapterTasks
  /\ adapterTasks[t].cancel
  /\ adapterTasks[t].pc # "done"
  /\ adapterTasks' = Kept(mgr, Ends(adapterTasks, t, "CancelledError"))
  /\ UNCHANGED << appVars, tfa, busVars, finalizations, bucket, nAdds, symVars,
                  mgr, mgrCall, returns, nRecv >>

(***************************************************************************)
(* fetch_historical_data: one call, its request to the exchange's REST     *)
(* endpoint and the candles made of the answer                             *)
(***************************************************************************)
\* the timeframe labels a caller passes; no adapter's table has "2m"
Labels == { "1m", "30m", "1w", "2m" }
Limits == { 1, 2 }

\* CoinbaseAdapter.fetch_historical_data: granularity_map
CoinbaseGranularityMap ==
  [l \in {"1m", "5m", "15m", "1h", "4h", "1d"} |->
     CASE l = "1m" -> 60 [] l = "5m" -> 300 [] l = "15m" -> 900
       [] l = "1h" -> 3600 [] l = "4h" -> 14400 [] l = "1d" -> 86400]

\* BitgetAdapter.fetch_historical_data: granularity_map
BitgetGranularityMap ==
  [l \in {"1m", "5m", "15m", "1h", "4h", "1d"} |->
     CASE l = "1m" -> "60" [] l = "5m" -> "300" [] l = "15m" -> "900"
       [] l = "1h" -> "3600" [] l = "4h" -> "14400" [] l = "1d" -> "86400"]

\* KrakenAdapter.fetch_historical_data: interval_map
interval_map ==
  [l \in {"1m", "5m", "15m", "30m", "1h", "4h", "1d", "1w"} |->
     CASE l = "1m" -> 1 [] l = "5m" -> 5 [] l = "15m" -> 15 [] l = "30m" -> 30
       [] l = "1h" -> 60 [] l = "4h" -> 240 [] l = "1d" -> 1440
       [] l = "1w" -> 10080]

\* OKXAdapter.fetch_historical_data: bar_map
bar_map ==
  [l \in {"1m", "5m", "15m", "30m", "1h", "4h", "1d", "1w"} |->
     CASE l = "1m" -> "1m" [] l = "5m" -> "5m" [] l = "15m" -> "15m"
       [] l = "30m" -> "30m" [] l = "1h" -> "1H" [] l = "4h" -> "4H"
       [] l = "1d" -> "1D" [] l = "1w" -> "1W"]

\* BitstampAdapter.fetch_historical_data: step_map
step_map ==
  [l \in {"1m", "5m", "15m", "30m", "1h", "4h", "1d"} |->
     CASE l = "1m" -> 60 [] l = "5m" -> 300 [] l = "15m" -> 900
       [] l = "30m" -> 1800 [] l = "1h" -> 3600 [] l = "4h" -> 14400
       [] l = "1d" -> 86400]

\* the adapters that translate the label with a lookup table, and the table
\* of each
WithTable == { "Coinbase Exchange", "Bitget", "Kraken", "OKX", "Bitstamp" }
TableOf(exchange) ==
  CASE exchange = "Coinbase Exchange" -> CoinbaseGranularityMap
    [] exchange = "Bitget"            -> BitgetGranularityMap
    [] exchange = "Kraken"            -> interval_map
    [] exchange = "OKX"               -> bar_map
    [] exchange = "Bitstamp"          -> step_map

\* the request parameter that carries the interval
IntervalParam(exchange) ==
  CASE exchange \in {"Coinbase Exchange", "Bitget"} -> "granularity"
    [] exchange = "Kraken"   -> "interval"
    [] exchange = "OKX"      -> "bar"
    [] exchange = "Bitstamp" -> "step"
    [] OTHER                 -> "interval"

\* what the adapter asks the exchange for, or None when it asks nothing:
\* "x = ..._map.get(timeframe); if not x: return []".  BinanceAdapter and
\* BitvavoAdapter have no table: params = {"interval": timeframe, ...}
RequestFor(exchange, timeframe) ==
  IF exchange \in WithTable
  THEN IF timeframe \in DOMAIN TableOf(exchange)
       THEN [param |-> IntervalParam(exchange),
             value |-> TableOf(exchange)[timeframe]]
       ELSE None
  ELSE [param |-> IntervalParam(exchange), value |-> timeframe]

\* the rows of an answer, as the exchange orders their fields: the time
\* first, in seconds or in milliseconds, then six numbers
HistoryRow(k) == << 60000 * k, 10 + k, 30 + k, 20 + k, 40 + k, 50 + k, 60 + k >>
HistoryData == { <<>>, << HistoryRow(1), HistoryRow(2) >> }

\* where a row holds open, high, low, close and volume (counted from 1);
\* Bitstamp's rows are objects, taken here in the order of the others
RowFields(exchange) ==
  CASE exchange = "Coinbase Exchange" -> << 4, 3, 2, 5, 6 >>
    [] exchange = "Kraken"            -> << 2, 3, 4, 5, 7 >>
    [] OTHER                          -> << 2, 3, 4, 5, 6 >>

\* datetime.fromtimestamp(row[0]) or datetime.fromtimestamp(row[0] / 1000),
\* in seconds
OpenTime(exchange, row) ==
  IF exchange \in {"Coinbase Exchange", "Kraken", "Bitstamp"}
  THEN row[1] ELSE row[1] \div 1000

\* Candle(symbol=..., timeframe=..., open_time_utc=..., open=..., ...)
Candle(exchange, symbol, timeframe, row) ==
  LET f == RowFields(exchange)
  IN  [symbol |-> symbol, timeframe |-> timeframe,
       open_time_utc |-> OpenTime(exchange, row),
       open |-> row[f[1]], high |-> row[f[2]], low |-> row[f[3]],
       close |-> row[f[4]], volume |-> row[f[5]]]

\* the rows the adapter makes candles of: "reversed(data[:limit])"
\* (Coinbase), "data[-limit:]" (Kraken), "data" (the others)
RowsTaken(exchange, data, limit) ==
  LET n == IF limit < Len(data) THEN limit ELSE Len(data)
  IN  CASE exchange = "Coinbase Exchange" -> [i \in 1..n |-> data[n + 1 - i]]
        [] exchange = "Kraken" -> SubSeq(data, Len(data) - n + 1, Len(data))
        [] OTHER -> data

Candles(exchange, symbol, timeframe, data, limit) ==
  LET rows == RowsTaken(exchange, data, limit)
  IN  [i \in 1..Len(rows) |-> Candle(exchange, symbol, timeframe, rows[i])]

\* no call of fetch_historical_data has been made
NoFetch ==
  [exchange |-> "", timeframe |-> "", limit |-> 0, pc |-> "idle",
   request |-> None, result |-> <<>>, raised |-> ""]

\* adapter_class(symbol).fetch_historical_data(timeframe, limit) up to its
\* return of [] or to "await client.get(url, params=params)"
FetchHistoricalData(exchange, timeframe, limit) ==
  /\ fetch.pc # "requested"
  /\ nFetches < MaxFetches
  /\ nFetches' = nFetches + 1
  /\ \E request \in {RequestFor(exchange, timeframe)} :
       fetch' = [exchange |-> exchange, timeframe |-> timeframe,
                 limit |-> limit,
                 pc |-> IF request = None THEN "returned" ELSE "requested",
                 request |-> request, result |-> <<>>, raised |-> ""]
  /\ UNCHANGED << busVars, aggVars, symVars, mgrVars, prefVars, ctorVars, ctlVars, extVars >>

\* the exchange answers with rows: response.json(), the candles, "return
\* candles"
FetchAnswered(data) ==
  /\ fetch.pc = "requested"
  /\ fetch' = [fetch EXCEPT
                 !.pc = "returned",
                 !.result = Candles(fetch.exchange, AggSymbol, fetch.timeframe,
                                    data, fetch.limit)]
  /\ UNCHANGED << nFetches, busVars, aggVars, symVars, mgrVars, prefVars, ctorVars, ctlVars, extVars >>

\* the exchange refuses the request or the connection fails:
\* "response.raise_for_status()" or client.get raises, and nothing in
\* fetch_historical_data catches it
FetchFailed(exc) ==
  /\ fetch.pc = "requested"
  /\ fetch' = [fetch EXCEPT !.pc = "raised", !.raised = exc]
  /\ UNCHANGED << nFetches, busVars, aggVars, symVars, mgrVars, prefVars, ctorVars, ctlVars, extVars >>

(***************************************************************************)
(* StateManager: the persistent state and its file                         *)
(***************************************************************************)
\* AppState(): last_symbol = "BTC/USD", last_timeframe = "1h"
AppStateDefault == [last_symbol |-> "BTC/USD", last_timeframe |-> "1h"]

\* a JSON value of the file: a string or a number
JsonString(text) == [str |-> text]
JsonNumber(n) == [num |-> n]

\* AppState(**data): pydantic takes the fields it knows, fills the missing
\* ones with their defaults and raises ValidationError, a ValueError, for a
\* value that is not a string; data that is no mapping is a TypeError
AppStateOf(data) ==
  IF data.kind # "dict" THEN [raised |-> "TypeError"]
  ELSE IF \E k \in DOMAIN data.d \cap DOMAIN AppStateDefault :
            "str" \notin DOMAIN data.d[k]
       THEN [raised |-> "ValidationError"]
  ELSE [raised |-> "",
        state  |-> [k \in DOMAIN AppStateDefault |->
                      IF k \in DOMAIN data.d THEN data.d[k].str
                      ELSE AppStateDefault[k]]]

\* what can be at the file's path: nothing, a file that open() refuses
\* (no permission, or a directory), bytes that are not JSON, or JSON
MissingFile == [kind |-> "missing"]
CorruptFile == [kind |-> "file", content |-> NotJson]
JsonFile(data) == [kind |-> "file", content |-> data]

\* orjson.dumps(self._state.model_dump())
Dumped(state) ==
  JsonObject([k \in DOMAIN state |-> JsonString(state[k])])

\* _load_state with "except (orjson.JSONDecodeError, TypeError, ValueError)"
\* left out
load_state_uncaught(file) ==
  IF file.kind = "missing" THEN [raised |-> "", state |-> AppStateDefault]
  ELSE IF file.kind = "unreadable" THEN [raised |-> "PermissionError"]
  ELSE IF file.content.kind = "invalid" THEN [raised |-> "JSONDecodeError"]
  ELSE AppStateOf(file.content)

\* StateManager._load_state: the state, or the exception that leaves it.
\* open() is inside the try, and an OSError is not among the exceptions
\* caught
load_state(file) ==
  LET out == load_state_uncaught(file)
  IN  IF out.raised \in {"JSONDecodeError", "TypeError", "ValidationError"}
      THEN [raised |-> "", state |-> AppStateDefault]
      ELSE out

\* StateManager.save_state: the file after it; an IOError is printed and
\* the file is left as it was
save_state(state, file) ==
  IF file.writable
  THEN [kind |-> "file", content |-> Dumped(state), writable |-> TRUE]
  ELSE file

\* the files the program may find at start
StateContents ==
  { JsonArray(<<>>),
    JsonObject([k \in {"last_symbol"} |-> JsonNumber(5)]),
    JsonObject([k \in {"last_symbol"} |-> JsonString("ETH/USD")]),
    JsonObject([k \in {"last_symbol", "last_timeframe", "theme"} |->
                  IF k = "last_symbol" THEN JsonString("ETH/USD")
                  ELSE JsonString("5m")]) }
StateFiles ==
  { [kind |-> f.kind, content |-> f.content, writable |-> w] :
      f \in { [kind |-> k, content |-> NotJson] : k \in {"missing", "unreadable"} }
            \cup { CorruptFile } \cup { JsonFile(c) : c \in StateContents },
      w \in BOOLEAN }

\* no StateManager has been constructed
NoStateManager == [pc |-> "none", state |-> AppStateDefault, raised |-> "",
                   found |-> MissingFile, updates |-> 0]

\* StateManager(file_path); "found" is history: the file at construction
NewStateManager ==
  /\ sm.pc = "none"
  /\ \E out \in {load_state(storage)} :
       sm' = IF out.raised = ""
             THEN [sm EXCEPT !.pc = "constructed", !.state = out.state,
                             !.found = storage]
             ELSE [sm EXCEPT !.pc = "failed", !.raised = out.raised,
                             !.found = storage]
  /\ UNCHANGED << storage, busVars, aggVars, symVars, mgrVars, histVars, ctorVars, ctlVars, extVars >>

\* update_symbol(symbol): set the field, save_state()
UpdateSymbol(symbol) ==
  /\ sm.pc = "constructed"
  /\ sm.updates < MaxUpdates
  /\ sm' = [sm EXCEPT !.state.last_symbol = symbol, !.updates = @ + 1]
  /\ storage' = save_state(sm'.state, storage)
  /\ UNCHANGED << busVars, aggVars, symVars, mgrVars, histVars, ctorVars, ctlVars, extVars >>

\* update_timeframe(timeframe): set the field, save_state()
UpdateTimeframe(timeframe) ==
  /\ sm.pc = "constructed"
  /\ sm.updates < MaxUpdates
  /\ sm' = [sm EXCEPT !.state.last_timeframe = timeframe, !.updates = @ + 1]
  /\ storage' = save_state(sm'.state, storage)
  /\ UNCHANGED << busVars, aggVars, symVars, mgrVars, histVars, ctorVars, ctlVars, extVars >>

(***************************************************************************)
(* TimeFrameAggregator(symbol, timeframe) for any timeframe label          *)
(***************************************************************************)
\* the characters of a label, and the labels up to MaxLabelLen characters
LabelChars == { "0", "5", "-", "x", "m", "h", "s" }
TimeframeLabels == UNION { [1..n -> LabelChars] : n \in 0..MaxLabelLen }

\* the value of a string of digits
RECURSIVE DigitsValue(_)
DigitsValue(chars) ==
  IF chars = <<>> THEN 0
  ELSE 10 * DigitsValue(SubSeq(chars, 1, Len(chars) - 1))
       + (IF chars[Len(chars)] = "5" THEN 5 ELSE 0)

IsDigits(chars) ==
  chars # <<>> /\ \A i \in DOMAIN chars : chars[i] \in {"0", "5"}

\* int(tf_str[:-1]): a sign and digits, or ValueError
IntOf(chars) ==
  IF IsDigits(chars) THEN [raised |-> "", value |-> DigitsValue(chars)]
  ELSE IF chars # <<>> /\ chars[1] = "-" /\ IsDigits(Tail(chars))
       THEN [raised |-> "", value |-> 0 - DigitsValue(Tail(chars))]
  ELSE [raised |-> "ValueError"]

\* _parse_timeframe(tf_str): "unit = tf_str[-1]" (IndexError on the empty
\* label), "value = int(tf_str[:-1])", then the unit; the timedelta in
\* seconds
parse_label(label) ==
  IF label = <<>> THEN [raised |-> "IndexError"]
  ELSE LET unit  == label[Len(label)]
           value == IntOf(SubSeq(label, 1, Len(label) - 1))
       IN  IF value.raised # "" THEN [raised |-> value.raised]
           ELSE IF unit \in {"m", "h", "d"}
                THEN [raised |-> "",
                      delta  |-> parse_timeframe(Timeframe(value.value, unit))]
           ELSE [raised |-> "ValueError"]

\* no TimeFrameAggregator has been asked for
NoAggregator == [pc |-> "none", label |-> <<>>, delta |-> 0, raised |-> ""]

\* TimeFrameAggregator(symbol, label): __init__ calls _parse_timeframe
Construct(label) ==
  /\ ctor.pc = "none"
  /\ \E out \in {parse_label(label)} :
       ctor' = IF out.raised = ""
               THEN [ctor EXCEPT !.pc = "constructed", !.label = label,
                                 !.delta = out.delta]
               ELSE [ctor EXCEPT !.pc = "failed", !.label = label,
                                 !.raised = out.raised]
  /\ UNCHANGED << busVars, aggVars, symVars, mgrVars, histVars, prefVars, ctlVars, extVars >>

\* the first add_trade on the new aggregator: _start_new_candle takes
\* "ts.minute % (self.timeframe_delta.total_seconds() / 60)", a float
\* modulo, which raises ZeroDivisionError when the timedelta is zero
FirstAddTrade ==
  /\ ctor.pc = "constructed"
  /\ ctor' = [ctor EXCEPT !.pc = "added",
                          !.raised = IF ctor.delta = 0
                                     THEN "ZeroDivisionError" ELSE ""]
  /\ UNCHANGED << busVars, aggVars, symVars, mgrVars, histVars, prefVars, ctlVars, extVars >>

(***************************************************************************)
(* The controller: switch_symbol_async, with the ConnectionManager taken   *)
(* as the symbol it serves and the adapter tasks as one source of ticks    *)
(***************************************************************************)
\* UIController.switch_symbol: run_coroutine_threadsafe hands the coroutine
\* to the worker's loop; the calls are taken one at a time here
CtlCall(symbol) ==
  /\ ctl.pc = "idle"
  /\ Len(ctl.started) < MaxSwitches
  /\ ctl' = [ctl EXCEPT !.pc = "called", !.symbol = symbol]
  /\ UNCHANGED << feed, busVars, aggVars, symVars, mgrVars, histVars, prefVars,
                  ctorVars, extVars >>

\* switch_symbol_async after the old aggregator's stop(): a new
\* SymbolAggregator, its start() (subscribe, create the task), and
\* connection_manager.switch_symbol(symbol) up to its first suspension: it
\* returns at once for the symbol already served, and with no task to stop
\* it runs to its end; otherwise it cancels the adapter tasks and waits
CtlStart ==
  /\ ctl.pc = "called"
  /\ saCall = "idle"
  /\ sa.task = 0
  /\ queues' = Append(queues, NewQueue(DefaultMaxsize))
  /\ subscribers' = [subscribers EXCEPT ![RawBus] = @ \cup {Len(queues) + 1}]
  /\ registered' = Append(registered,
                     [bus |-> RawBus, from |-> Len(published[RawBus]),
                      until |-> -1])
  /\ received' = Append(received, <<>>)
  /\ runTasks' = Append(runTasks, NewRunTask(Len(queues) + 1))
  /\ sa' = [NewSymbolAggregator(ctl.symbol, OwnedTimeframes) EXCEPT
              !.subscriber_queue = Len(queues) + 1,
              !.task = Len(runTasks) + 1]
  /\ IF ctl.symbol = feed.symbol
     THEN /\ ctl' = [ctl EXCEPT !.pc = "idle", !.started = Append(@, ctl.symbol)]
          /\ UNCHANGED feed
     ELSE IF ~feed.live
     THEN /\ ctl' = [ctl EXCEPT !.pc = "idle", !.started = Append(@, ctl.symbol)]
          /\ feed' = [symbol |-> ctl.symbol,
                      live   |-> AdaptersFor(ctl.symbol) # <<>>]
     ELSE /\ ctl' = [ctl EXCEPT !.pc = "switching",
                                !.started = Append(@, ctl.symbol)]
          /\ feed' = [feed EXCEPT !.live = FALSE]
  /\ UNCHANGED << published, saCall, invocations, accepted, stops, aggVars,
                  mgrVars, histVars, prefVars, ctorVars, extVars >>

\* switch_symbol after its gather: the symbol is recorded and the new
\* adapter tasks are created
CtlSwitched ==
  /\ ctl.pc = "switching"
  /\ ctl' = [ctl EXCEPT !.pc = "idle"]
  /\ feed' = [symbol |-> ctl.symbol, live |-> AdaptersFor(ctl.symbol) # <<>>]
  /\ UNCHANGED << busVars, aggVars, symVars, mgrVars, histVars, prefVars,
                  ctorVars, extVars >>

\* _run_adapter: "await raw_trade_publisher.publish(price_update)" for a tick
\* of an adapter task that runs and has not been cancelled
AdapterPublishes(tick) ==
  /\ feed.live
  /\ tick.symbol = feed.symbol
  /\ Len(published[RawBus]) < MaxTicks
  /\ Publish(RawBus, tick)

(***************************************************************************)
(* publish() as the loop it is, among the tasks of the event loop          *)
(***************************************************************************)
\* no publish() is iterating
NoPublish ==
  [pc |-> "idle", bus |-> "", message |-> None, table |-> {}, used |-> 0,
   served |-> {}]

\* an event loop in which the put of publish() awaits: other tasks run
\* between two puts
LoopFreeAtPut == TRUE

\* the event loop runs another task only when the running one awaits, and
\* the body of publish() has no await: "queue.put_nowait(message)" is a
\* plain call
LoopFree == publishing.pc = "idle"

\* UIController.__init__ on the main thread:
\* "self._ui_queue = aggregated_data_publisher.subscribe()"
NewUIController ==
  /\ uiQueue = 0
  /\ uiQueue' = Len(queues) + 1
  /\ queues' = Append(queues, NewQueue(DefaultMaxsize))
  /\ subscribers' = [subscribers EXCEPT ![AggBus] = @ \cup {Len(queues) + 1}]
  /\ registered' = Append(registered,
                     [bus |-> AggBus, from |-> Len(published[AggBus]),
                      until |-> -1])
  /\ received' = Append(received, <<>>)
  /\ UNCHANGED << published, publishing, pubLog, caught, aggVars, symVars,
                  mgrVars, histVars, prefVars, ctorVars, ctlVars >>

\* a task of the worker's loop calls publish(message): "for queue in
\* self.subscribers" makes the set's iterator. The tasks that publish are
\* made by switch_symbol_async, which only a constructed UIController
\* schedules
PublishBegin(p, message) ==
  /\ uiQueue # 0
  /\ publishing.pc = "idle"
  /\ Len(published[RawBus]) + Len(published[AggBus]) < MaxPublish
  /\ published' = [published EXCEPT ![p] = Append(@, message)]
  /\ publishing' = [pc |-> "iter", bus |-> p,
             message |-> [n |-> Len(published[p]) + 1, msg |-> message],
             table |-> subscribers[p], used |-> Cardinality(subscribers[p]),
             served |-> {}]
  /\ UNCHANGED << subscribers, queues, registered, received, pubLog, uiQueue,
                  caught, aggVars, symVars, mgrVars, histVars, prefVars,
                  ctorVars, ctlVars >>

\* the record of a publish() that has ended: what it served, which of the
\* queues it started with are still subscribed, and what it raised
Ended(raised) ==
  [bus    |-> publishing.bus,
   n      |-> publishing.message.n,
   served |-> publishing.served,
   whole  |-> publishing.table \cap subscribers[publishing.bus],
   raised |-> raised]

\* one turn of "for queue in self.subscribers": the iterator raises
\* RuntimeError when the set has changed size; over a set that was changed
\* and has its old size again it may visit any entry or stop early;
\* otherwise it visits every entry once and the loop ends
PublishNext ==
  /\ publishing.pc = "iter"
  /\ IF Cardinality(subscribers[publishing.bus]) # publishing.used
     THEN /\ pubLog' = Append(pubLog, Ended("RuntimeError"))
          /\ publishing' = NoPublish
          /\ UNCHANGED queues
     ELSE \/ /\ \/ subscribers[publishing.bus] \ publishing.served = {}
                 \/ subscribers[publishing.bus] # publishing.table
              /\ pubLog' = Append(pubLog, Ended(""))
              /\ publishing' = NoPublish
              /\ UNCHANGED queues
          \/ \E q \in subscribers[publishing.bus] \ publishing.served :
               /\ queues' = [queues EXCEPT
                             ![q] = put_nowait(@, publishing.message)]
               /\ publishing' = [publishing EXCEPT !.served = @ \cup {q}]
               /\ UNCHANGED pubLog
  /\ UNCHANGED << subscribers, published, registered, received, uiQueue,
                  caught, aggVars, symVars, mgrVars, histVars, prefVars,
                  ctorVars, ctlVars >>

(***************************************************************************)
(* _run when add_trade raises                                              *)
(***************************************************************************)
\* a price that Decimal() rejects, and a tick that carries it
NotDecimal == [invalid |-> "abc"]
Malformed(trade) == trade.price = NotDecimal
FaultyTicks ==
  { [symbol |-> AggSymbol, price |-> NotDecimal, size |-> DecimalOf(1, 0),
     exchange_timestamp_utc |-> Datetime(0, 0, 0, 30, 250000)],
    [symbol |-> AggSymbol, price |-> DecimalOf(50000, 0),
     size |-> DecimalOf(1, 0),
     exchange_timestamp_utc |-> Datetime(0, 0, 1, 10, 0)] }

\* _run without its "except Exception": the exception ends the task
ChildrenRaiseFatal(r) ==
  /\ r \in DOMAIN runTasks
  /\ runTasks[r].pc = "gather"
  /\ ~runTasks[r].cancel
  /\ Malformed(runTasks[r].tick.msg)
  /\ runTasks' = [runTasks EXCEPT ![r].pc = "done", ![r].ended = "gather"]
  /\ caught' = caught
  /\ UNCHANGED << busVars, sa, saCall, invocations, accepted, stops, aggVars,
                  mgrVars, histVars, prefVars, ctorVars, ctlVars, loopVars >>

\* the add_trade coroutines run by gather for a tick whose price is not a
\* decimal: each raises InvalidOperation at "Decimal(trade.price)", before
\* it has changed anything; gather hands the first exception to _run, whose
\* "except Exception" prints it, and the loop goes on to its next get()
ChildrenRaise(r) ==
  /\ r \in DOMAIN runTasks
  /\ runTasks[r].pc = "gather"
  /\ ~runTasks[r].cancel
  /\ Malformed(runTasks[r].tick.msg)
  /\ runTasks' = [runTasks EXCEPT ![r].pc = "gathered"]
  /\ caught' = Append(caught, [task |-> r, tick |-> runTasks[r].tick,
                               exc |-> "InvalidOperation"])
  /\ UNCHANGED << busVars, sa, saCall, invocations, accepted, stops, aggVars,
                  mgrVars, histVars, prefVars, ctorVars, ctlVars, loopVars >>

(***************************************************************************)
(* The specifications.                                                     *)
(***************************************************************************)
Init ==
  /\ tfa \in { NewAggregator(AggSymbol, tf) : tf \in Timeframes }
  /\ subscribers = [p \in Publishers |-> {}]
  /\ queues = <<>>
  /\ published = [p \in Publishers |-> <<>>]
  /\ registered = <<>>
  /\ received = <<>>
  /\ finalizations = <<>>
  /\ bucket = <<>>
  /\ nAdds = 0
  /\ sa = NewSymbolAggregator(AggSymbol, OwnedTimeframes)
  /\ runTasks = <<>>
  /\ saCall = "idle"
  /\ invocations = <<>>
  /\ accepted = <<>>
  /\ stops = {}
  /\ mgr = NewConnectionManager
  /\ adapterTasks = <<>>
  /\ mgrCall = <<>>
  /\ returns = <<>>
  /\ nRecv = 0
  /\ fetch = NoFetch
  /\ nFetches = 0
  /\ storage \in StateFiles
  /\ sm = NoStateManager
  /\ ctor = NoAggregator
  /\ ctl = [pc |-> "idle", symbol |-> NoSymbol, started |-> <<>>]
  /\ feed = [symbol |-> NoSymbol, live |-> FALSE]
  /\ publishing = NoPublish
  /\ pubLog = <<>>
  /\ uiQueue = 0
  /\ caught = <<>>

\* the publisher alone, with its producers and consumers
NextPublisher ==
  \/ \E p \in Publishers : Subscribe(p)
  \/ \E p \in Publishers : \E q \in DOMAIN queues : Unsubscribe(p, q)
  \/ \E p \in Publishers : \E m \in MessagesOf(p) : Publish(p, m)
  \/ \E q \in DOMAIN queues : Get(q)

\* one TimeFrameAggregator fed directly, publishing on the aggregated bus
NextAggregator ==
  \E trade \in PriceUpdates : AddTrade(trade)

\* one SymbolAggregator, started when it has no task as its callers do,
\* with producers on the raw-trade bus
NextSymbol ==
  \/ sa.task = 0 /\ Start
  \/ StopBegin
  \/ StopEnd
  \/ \E r \in DOMAIN runTasks : RunStep(r)
  \/ \E r \in DOMAIN runTasks : Children(r)
  \/ \E r \in DOMAIN runTasks : RunCancelled(r)
  \/ \E tick \in RawTicks :
       Len(published[RawBus]) < MaxTicks /\ Publish(RawBus, tick)

\* the ConnectionManager with its callers, its adapter tasks and exchanges
NextManager ==
  \/ \E symbol \in Symbols : SwitchSymbol(symbol)
  \/ StopAllConnections
  \/ GatherDone
  \/ \E t \in DOMAIN adapterTasks : AdapterStart(t)
  \/ \E t \in DOMAIN adapterTasks : Connected(t)
  \/ \E t \in DOMAIN adapterTasks : TransportFailure(t)
  \/ \E t \in DOMAIN adapterTasks :
       \E raw \in RawMessages(adapterTasks[t].exchange) : Recv(t, raw)
  \/ \E t \in DOMAIN adapterTasks : AdapterCancelled(t)

\* the historical loads of the user interface, one at a time
NextHistory ==
  \/ \E exchange \in ADAPTER_MAP : \E timeframe \in Labels : \E limit \in Limits :
       FetchHistoricalData(exchange, timeframe, limit)
  \/ \E data \in HistoryData : FetchAnswered(data)
  \/ \E exc \in {"HTTPStatusError", "ConnectError"} : FetchFailed(exc)

\* the StateManager, built at start and updated on the user's selections
NextState ==
  \/ NewStateManager
  \/ \E symbol \in Symbols : UpdateSymbol(symbol)
  \/ \E timeframe \in {"1h", "5m"} : UpdateTimeframe(timeframe)

\* the construction of one aggregator and its first trade
NextConstruct ==
  \/ \E label \in TimeframeLabels : Construct(label)
  \/ FirstAddTrade

\* the controller switching symbols, with the aggregator it owns and the
\* ticks of the adapters
NextController ==
  \/ \E symbol \in DOMAIN exchange_integrations : CtlCall(symbol)
  \/ ctl.pc = "called" /\ sa.task # 0 /\ StopBegin
  \/ StopEnd
  \/ CtlStart
  \/ CtlSwitched
  \/ \E tick \in RawTicks : AdapterPublishes(tick)
  \/ \E r \in DOMAIN runTasks : RunStep(r)
  \/ \E r \in DOMAIN runTasks : Children(r)
  \/ \E r \in DOMAIN runTasks : RunCancelled(r)

\* the publishers among the tasks of the worker's loop: the aggregators'
\* start() and stop() subscribe and unsubscribe on the raw-trade bus, the
\* adapters and the aggregators publish, the consumers take
NextLoop ==
  \/ NewUIController
  \/ LoopFree /\ Subscribe(RawBus)
  \/ LoopFree /\ \E q \in subscribers[RawBus] : Unsubscribe(RawBus, q)
  \/ \E p \in Publishers : \E m \in MessagesOf(p) : PublishBegin(p, m)
  \/ PublishNext
  \/ LoopFree /\ \E q \in DOMAIN queues : Get(q)

\* one SymbolAggregator whose caller calls start() and stop() in any order
NextRestart ==
  \/ StartWithin(MaxRestarts)
  \/ StopBegin
  \/ StopEnd
  \/ \E r \in DOMAIN runTasks : RunStep(r)
  \/ \E r \in DOMAIN runTasks : Children(r)
  \/ \E r \in DOMAIN runTasks : RunCancelled(r)
  \/ \E tick \in RawTicks :
       Len(published[RawBus]) < MaxTicks /\ Publish(RawBus, tick)

\* one TimeFrameAggregator fed trades of any size
NextVolume ==
  \E trade \in FineUpdates : AddTrade(trade)

\* one TimeFrameAggregator fed trades in any order of their timestamps
NextTimed ==
  \E trade \in TimedUpdates : AddTradeWithin(trade, MaxTimed)

\* one SymbolAggregator that is sent a tick whose price is not a decimal
NextFaulty ==
  \/ sa.task = 0 /\ Start
  \/ StopBegin
  \/ StopEnd
  \/ \E r \in DOMAIN runTasks : RunStep(r)
  \/ \E r \in DOMAIN runTasks :
       /\ runTasks[r].pc = "gather"
       /\ ~Malformed(runTasks[r].tick.msg)
       /\ Children(r)
  \/ \E r \in DOMAIN runTasks : ChildrenRaise(r)
  \/ \E r \in DOMAIN runTasks : RunCancelled(r)
  \/ \E tick \in FaultyTicks :
       Len(published[RawBus]) < MaxTicks /\ Publish(RawBus, tick)

\* one SymbolAggregator that is started and never stopped
NextPipeline ==
  \/ sa.task = 0 /\ Start
  \/ \E r \in DOMAIN runTasks : RunStep(r)
  \/ \E r \in DOMAIN runTasks : Children(r)
  \/ \E tick \in RawTicks :
       Len(published[RawBus]) < MaxTicks /\ Publish(RawBus, tick)

Next ==
  \/ NextPublisher \/ NextAggregator \/ NextSymbol \/ NextManager
  \/ NextHistory \/ NextState \/ NextConstruct \/ NextController
  \/ NextLoop \/ NextRestart \/ NextVolume \/ NextTimed \/ NextFaulty
  \/ NextPipeline

\* the publisher's runs do not depend on the aggregator's timeframe
InitPublisher ==
  /\ Init
  /\ tfa.timeframe_str = Timeframe(1, "m")
  /\ storage = [kind |-> "missing", content |-> NotJson, writable |-> TRUE]

\* the StateManager's runs start from any state file
InitState == Init /\ tfa.timeframe_str = Timeframe(1, "m")

Spec == Init /\ [][Next]_vars
SpecPublisher == InitPublisher /\ [][NextPublisher]_vars
InitAggregator ==
  Init /\ storage = [kind |-> "missing", content |-> NotJson, writable |-> TRUE]
SpecAggregator == InitAggregator /\ [][NextAggregator]_vars
SpecSymbol == InitPublisher /\ [][NextSymbol]_vars
SpecManager == InitPublisher /\ [][NextManager]_vars
SpecHistory == InitPublisher /\ [][NextHistory]_vars
SpecState == InitState /\ [][NextState]_vars
SpecConstruct == InitPublisher /\ [][NextConstruct]_vars
SpecController == InitPublisher /\ [][NextController]_vars
SpecLoop == InitPublisher /\ [][NextLoop]_vars
SpecRestart == InitPublisher /\ [][NextRestart]_vars
SpecVolume == InitAggregator /\ [][NextVolume]_vars
SpecTimed == InitAggregator /\ [][NextTimed]_vars
SpecFaulty == InitPublisher /\ [][NextFaulty]_vars

\* the event loop runs every task that is ready: a _run task that has been
\* created, that a put_nowait has woken or that its gather has resumed takes
\* its step, and the add_trade coroutines that gather scheduled are run
\* Children(r) can take a step exactly when task r is suspended in its gather
ChildrenReady(r) ==
  /\ r \in DOMAIN runTasks
  /\ runTasks[r].pc = "gather"
  /\ ~runTasks[r].cancel
\* weak fairness of Children(r), written out with ChildrenReady(r) for
\* ENABLED <<Children(r)>>_vars
FairChildren(r) == []<>(~ChildrenReady(r)) \/ []<><<Children(r)>>_vars
FairPipeline ==
  \A r \in 1..MaxStarts : WF_vars(RunStep(r)) /\ FairChildren(r)
SpecPipeline == InitPublisher /\ [][NextPipeline]_vars /\ FairPipeline

(***************************************************************************)
(* Reference arithmetic for the claims: exact sums and products, and one   *)
(* rounding of the exact quotient to FormatDigits fractional digits.       *)
(***************************************************************************)
\* the (price, size) pairs of a sequence of PriceUpdates
QuotesOf(ticks) ==
  [i \in 1..Len(ticks) |-> << ticks[i].price, ticks[i].size >>]

RECURSIVE ExactSum(_)
ExactSum(xs) == IF xs = <<>> THEN Zero ELSE DAddX(Head(xs), ExactSum(Tail(xs)))

ExactVolume(quotes) == ExactSum(SizesOf(quotes))
ExactTurnover(quotes) ==
  ExactSum([i \in 1..Len(quotes) |-> DMulX(quotes[i][1], quotes[i][2])])

\* n / d rounded once, ties to even, to FormatDigits fractional digits (d # 0)
ExactQuotient(n, d) ==
  LET k == n.e - d.e + FormatDigits
  IN  DNorm(IF k >= 0 THEN BRoundDiv(BShl(n.m, k), d.m)
                      ELSE BRoundDiv(n.m, BShl(d.m, -k)),
            -FormatDigits)

ExactVwap(quotes) == ExactQuotient(ExactTurnover(quotes), ExactVolume(quotes))

\* the VWAP as the aggregator's arithmetic gives it for these pairs
ContextVwap(quotes) ==
  DFormat(DDiv(NpSum(ProductsOf(quotes)), NpSum(SizesOf(quotes))))

\* no product, sum or quotient of the computation needed rounding
NothingRounded(quotes) ==
  /\ NpSum(ProductsOf(quotes)) = ExactTurnover(quotes)
  /\ NpSum(SizesOf(quotes)) = ExactVolume(quotes)
  /\ DMulX(DDiv(ExactTurnover(quotes), ExactVolume(quotes)),
           ExactVolume(quotes)) = ExactTurnover(quotes)

Last(xs) == xs[Len(xs)]

RECURSIVE PointsOf(_)
PointsOf(fs) == IF fs = <<>> THEN <<>> ELSE Head(fs).points \o PointsOf(Tail(fs))

(***************************************************************************)
(* C1: when a tick's timestamp is at or beyond the current bucket's start  *)
(* plus the timeframe, the bucket is finalized and published before the    *)
(* tick is accepted, and the tick goes only into the newly opened bucket:  *)
(* the published VWAP, volume and last price are those of the trades       *)
(* accepted before the tick.                                               *)
(***************************************************************************)
C1_FinalizedBeforeAccept ==
  /\ published[AggBus] = PointsOf(finalizations)
  /\ \A i \in DOMAIN finalizations :
       LET f   == finalizations[i]
           old == QuotesOf(f.ticks)
       IN  /\ DtGE(f.trigger.exchange_timestamp_utc,
                   DtPlus(f.before.current_candle_ts, f.before.timeframe_delta))
           /\ f.after.trades = << << f.trigger.price, f.trigger.size >> >>
           /\ f.after.current_candle_ts # f.before.current_candle_ts
           /\ Len(f.points) = IF ExactVolume(old) = Zero THEN 0 ELSE 1
           /\ \A k \in DOMAIN f.points :
                /\ f.points[k].timestamp_utc = f.before.current_candle_ts
                /\ f.points[k].vwap = ContextVwap(old)
                /\ f.points[k].cumulative_volume = DFormat(NpSum(SizesOf(old)))
                /\ f.points[k].last_price = DFormat(Last(old)[1])

\* a rollover published a point, and counting the trigger would have changed
\* its volume and its last price
C1_Witness ==
  \E i \in DOMAIN finalizations :
    LET f == finalizations[i]
    IN  /\ f.points # <<>>
        /\ f.trigger.size # Zero
        /\ f.trigger.price # Last(f.ticks).price

(***************************************************************************)
(* C2: for every timeframe label and every trade timestamp T, the bucket   *)
(* opened by _start_new_candle starts at T truncated down to the nearest   *)
(* multiple of the timeframe duration counted from the epoch.              *)
(***************************************************************************)
EpochAligned(ts, delta) == [s |-> ts.s - (ts.s % delta), us |-> 0]

C2_BucketStartAligned ==
  tfa.current_candle_ts # None =>
    tfa.current_candle_ts =
      EpochAligned(bucket[1].exchange_timestamp_utc, tfa.timeframe_delta)
\* a first trade at 05:30:00 opened a bucket of a timeframe longer than an hour
C2_Case ==
  /\ tfa.current_candle_ts # None
  /\ tfa.timeframe_delta > 3600
  /\ bucket[1].exchange_timestamp_utc = Datetime(0, 5, 30, 0, 0)

Brackets(low, high, prices) ==
  \A x \in prices : DCmp(low, x) <= 0 /\ DCmp(x, high) <= 0

PricesIn(ticks) == { ticks[i].price : i \in DOMAIN ticks }

C5_HighLowBracket ==
  /\ tfa.current_candle_ts # None =>
       Brackets(tfa.low_price, tfa.high_price,
                PricesIn(bucket) \cup {tfa.open_price, tfa.last_price})
  /\ \A i \in DOMAIN finalizations :
       \A k \in DOMAIN finalizations[i].points :
         LET point == finalizations[i].points[k]
         IN  Brackets(point.low_price, point.high_price,
                      PricesIn(finalizations[i].ticks)
                        \cup {point.open_price, point.last_price})

\* an open bucket whose later trades moved both the high and the low away
\* from the open
C5_Witness ==
  /\ tfa.current_candle_ts # None
  /\ DCmp(tfa.low_price, tfa.open_price) < 0
  /\ DCmp(tfa.open_price, tfa.high_price) < 0
  /\ Len(bucket) >= 3

(***************************************************************************)
(* C6: at a rollover the new bucket's open, high and low all equal the     *)
(* price of the trade that opened it, and the old bucket's published       *)
(* last_price is the price of the last trade accepted before the rollover. *)
(***************************************************************************)
C6_RolloverPrices ==
  \A i \in DOMAIN finalizations :
    LET f == finalizations[i]
    IN  /\ f.after.open_price = f.trigger.price
        /\ f.after.high_price = f.trigger.price
        /\ f.after.low_price = f.trigger.price
        /\ \A k \in DOMAIN f.points :
             f.points[k].last_price = Last(f.ticks).price

\* a rollover whose trigger is priced strictly inside the old bucket's range,
\* and differently from the old bucket's last trade
C6_Witness ==
  \E i \in DOMAIN finalizations :
    LET f == finalizations[i]
    IN  /\ f.points # <<>>
        /\ DCmp(f.before.low_price, f.trigger.price) < 0
        /\ DCmp(f.trigger.price, f.before.high_price) < 0
        /\ f.trigger.price # Last(f.ticks).price
(***************************************************************************)
(* C7: every queue returned by subscribe() has a bounded capacity C, and   *)
(* never holds more than C pending messages however many are published     *)
(* while its subscriber reads nothing.                                     *)
(***************************************************************************)
C7_QueueBounded ==
  \A q \in DOMAIN queues :
    /\ queues[q].maxsize > 0
    /\ Len(queues[q].items) <= queues[q].maxsize

\* a subscriber that has read nothing holds every message published since
\* it subscribed, at least two of them
C7_Case ==
  \E q \in DOMAIN queues :
    /\ received[q] = <<>>
    /\ Len(queues[q].items) >= 2
    /\ Len(queues[q].items) = Len(published[registered[q].bus]) - registered[q].from

(***************************************************************************)
(* C8: publish never blocks or fails because of a subscriber: it can be    *)
(* called whatever the subscribers' queues hold, and one call gives the    *)
(* message to every registered queue that is not full and leaves every     *)
(* other queue as it was.                                                  *)
(***************************************************************************)
PublishEnabled ==
  \A p \in Publishers : \A m \in MessagesOf(p) :
    Len(published[RawBus]) + Len(published[AggBus]) < MaxPublish
      => ENABLED Publish(p, m)

PublishStep ==
  \A p \in Publishers :
    published'[p] # published[p] =>
      \A q \in DOMAIN queues :
        queues'[q].items =
          IF q \in subscribers[p] /\ ~QueueFull(queues[q])
          THEN Append(queues[q].items,
                      [n |-> Len(published'[p]), msg |-> Last(published'[p])])
          ELSE queues[q].items

Delivered(q) == received[q] \o queues[q].items

C9_DeliveredWhileRegistered ==
  \A q \in DOMAIN queues :
    LET r    == registered[q]
        upto == IF r.until = -1 THEN Len(published[r.bus]) ELSE r.until
    IN  /\ Len(Delivered(q)) = upto - r.from
        /\ \A i \in DOMAIN Delivered(q) :
             /\ Delivered(q)[i].n = r.from + i
             /\ Delivered(q)[i].msg = published[r.bus][r.from + i]

\* a queue subscribed after a first message, was given a second, and was
\* unsubscribed before a third
C9_Witness ==
  \E q \in DOMAIN queues :
    LET r == registered[q]
    IN  /\ r.from >= 1
        /\ r.until > r.from
        /\ r.until < Len(published[r.bus])
        /\ Len(Delivered(q)) = 1

(***************************************************************************)
(* C10: within one subscriber's queue, messages are dequeued in the order  *)
(* of the publish calls that delivered them.                               *)
(***************************************************************************)
C10_Fifo ==
  \A q \in DOMAIN queues :
    \A i, j \in DOMAIN Delivered(q) :
      i < j => Delivered(q)[i].n < Delivered(q)[j].n

\* a subscriber has dequeued two messages and holds a third, while another
\* subscriber of the same publisher has dequeued none
C10_Witness ==
  \E q1, q2 \in DOMAIN queues :
    /\ q1 # q2
    /\ registered[q1].bus = registered[q2].bus
    /\ Len(received[q1]) >= 2
    /\ queues[q1].items # <<>>
    /\ received[q2] = <<>>
    /\ queues[q2].items # <<>>

(***************************************************************************)
(* SymbolAggregator: distribution of accepted ticks                        *)
(***************************************************************************)
\* the add_trade calls made for the k-th accepted tick on aggregator i
CallsFor(k, i) ==
  { c \in DOMAIN invocations :
      /\ invocations[c].agg = i
      /\ invocations[c].task = accepted[k].task
      /\ invocations[c].tick = accepted[k].tick }

OnceOnEach(k) == \A i \in DOMAIN sa.aggs : Cardinality(CallsFor(k, i)) = 1
OnNone(k) == \A i \in DOMAIN sa.aggs : CallsFor(k, i) = {}

\* the k-th accepted tick is the one its task holds between the dequeue and
\* the end of the gather
InFlight(k) ==
  /\ runTasks[accepted[k].task].pc = "gather"
  /\ runTasks[accepted[k].task].tick = accepted[k].tick

\* the task was cancelled while it held the k-th accepted tick, before the
\* add_trade calls started
Dropped(k) ==
  /\ runTasks[accepted[k].task].pc = "done"
  /\ runTasks[accepted[k].task].ended = "gather"
  /\ runTasks[accepted[k].task].tick = accepted[k].tick

\* the k-th accepted tick is the latest one its task accepted
LatestOfTask(k) ==
  \A m \in DOMAIN accepted : accepted[m].task = accepted[k].task => m <= k

\* C11 as stated: every accepted tick that its task no longer holds in
\* flight has had add_trade invoked exactly once on every owned aggregator
C11_OnceOnEveryAggregator ==
  \A k \in DOMAIN accepted : InFlight(k) \/ OnceOnEach(k)

\* C11 amended: add_trade is invoked exactly once on every owned aggregator
\* for each accepted tick, or on none of them when stop() cancelled the task
\* before the invocations started; when a task dequeues its next tick no
\* invocation for an earlier tick of that task is outstanding
C11_OnceOnEachOrDropped ==
  \A k \in DOMAIN accepted :
    /\ \A i \in DOMAIN sa.aggs : Cardinality(CallsFor(k, i)) <= 1
    /\ IF LatestOfTask(k)
       THEN \/ InFlight(k) /\ OnNone(k)
            \/ Dropped(k) /\ OnNone(k)
            \/ OnceOnEach(k) /\ ~InFlight(k) /\ ~Dropped(k)
       ELSE OnceOnEach(k)

\* a task has distributed one tick to both aggregators and dequeued the next
C11_Witness ==
  /\ Len(accepted) >= 2
  /\ accepted[1].task = accepted[2].task
  /\ OnceOnEach(1)
  /\ InFlight(2)

\* the ticks of the add_trade calls made on aggregator i, in call order
RECURSIVE TicksGivenTo(_, _)
TicksGivenTo(calls, i) ==
  IF calls = <<>> THEN <<>>
  ELSE (IF Head(calls).agg = i THEN << Head(calls).tick.msg >> ELSE <<>>)
       \o TicksGivenTo(Tail(calls), i)

\* the ticks among msgs that carry the given symbol, in order
RECURSIVE OfSymbol(_, _)
OfSymbol(msgs, symbol) ==
  IF msgs = <<>> THEN <<>>
  ELSE (IF Head(msgs).symbol = symbol THEN << Head(msgs) >> ELSE <<>>)
       \o OfSymbol(Tail(msgs), symbol)

\* the aggregator after add_trade of each tick in turn
RECURSIVE Replay(_, _)
Replay(agg, msgs) ==
  IF msgs = <<>> THEN agg ELSE Replay(add_trade(agg, Head(msgs)), Tail(msgs))

\* the ticks a _run task has taken from its queue and finished with
Handled(r) ==
  LET got == received[runTasks[r].queue]
  IN  IF runTasks[r].pc = "gather" \/ runTasks[r].ended = "gather"
      THEN SubSeq(got, 1, Len(got) - 1) ELSE got

\* C12: a tick whose symbol is not the SymbolAggregator's is passed to no
\* owned aggregator and leaves every aggregator as it was: each aggregator's
\* state is the result of the ticks of the aggregator's own symbol alone
C12_OtherSymbolsIgnored ==
  /\ \A c \in DOMAIN invocations : invocations[c].tick.msg.symbol = sa.symbol
  /\ \A i \in DOMAIN sa.aggs :
       sa.aggs[i] =
         Replay(NewAggregator(sa.symbol, OwnedTimeframes[i]),
                OfSymbol(TicksGivenTo(invocations, i), sa.symbol))
  /\ \A r \in DOMAIN runTasks :
       \A g \in DOMAIN Handled(r) :
         Handled(r)[g].msg.symbol # sa.symbol =>
           \A c \in DOMAIN invocations : invocations[c].tick # Handled(r)[g]

\* a task took a tick of another symbol and a tick of its own symbol from its
\* queue, and the add_trade calls for the latter have run
C12_Witness ==
  \E r \in DOMAIN runTasks :
    /\ \E g \in DOMAIN Handled(r) : Handled(r)[g].msg.symbol = ForeignSymbol
    /\ \E g \in DOMAIN Handled(r) :
         /\ Handled(r)[g].msg.symbol = sa.symbol
         /\ \E c \in DOMAIN invocations : invocations[c].tick = Handled(r)[g]

\* C13: once stop() has returned, the processing task it cancelled has ended
\* and the aggregator's queue is not among the raw-trade bus's subscribers;
\* the aggregator holds no task until the next start()
C13_StoppedAndUnsubscribed ==
  /\ \A s \in stops :
       /\ s.task # 0 => runTasks[s.task].pc = "done"
       /\ s.queue \notin subscribers[RawBus]
       /\ registered[s.queue].until # -1
  /\ (saCall = "idle" /\ sa.task = 0) =>
       \A r \in DOMAIN runTasks : runTasks[r].pc = "done"

\* stop() has returned after cancelling a task that had been running and
\* whose queue had been served by publish() while it was registered
C13_Witness ==
  \E s \in stops :
    /\ s.task # 0
    /\ runTasks[s.task].ended \in {"get", "gather", "gathered"}
    /\ received[s.queue] # <<>>
    /\ registered[s.queue].until > registered[s.queue].from

(***************************************************************************)
(* ConnectionManager: calls, tasks and what they publish                   *)
(***************************************************************************)
\* the tasks with the given ids that serve the exchange for the symbol
Serving(ids, exchange, symbol) ==
  { t \in ids : /\ adapterTasks[t].exchange = exchange
                /\ adapterTasks[t].symbol = symbol }

Tracked(m) == { m.tasks[i] : i \in DOMAIN m.tasks }

\* a switch_symbol call for a symbol other than the active one has returned
Switched(ret) ==
  ret.op = "switch_symbol" /\ ret.symbol # ret.was.current_symbol

\* C14 as stated: when switch_symbol(S), S not the active symbol, has
\* returned, every task tracked before the call has ended, and at the return
\* exactly one task was running for each exchange configured to serve S
C14_SwitchReplacesTasks ==
  \A r \in DOMAIN returns :
    Switched(returns[r]) =>
      /\ \A t \in Tracked(returns[r].was) : adapterTasks[t].pc = "done"
      /\ \A i \in DOMAIN AdaptersFor(returns[r].symbol) :
           Cardinality(Serving(Tracked(returns[r].now)
                                 \cup returns[r].untracked,
                               AdaptersFor(returns[r].symbol)[i],
                               returns[r].symbol)) = 1

\* two switch_symbol calls for the same symbol overlapped and both returned
C14_Case ==
  \E r \in DOMAIN returns :
    /\ r > 1
    /\ Switched(returns[r])
    /\ Switched(returns[r - 1])
    /\ returns[r].symbol = returns[r - 1].symbol
    /\ returns[r].was = returns[r - 1].was
    /\ returns[r].cancelled
    /\ AdaptersFor(returns[r].symbol) # <<>>

\* C15: switch_symbol(S) with S the active symbol cancels no task, creates
\* none, and leaves the tracked tasks and the active symbol as they were
C15_SameSymbolNoOp ==
  \A r \in DOMAIN returns :
    (/\ returns[r].op = "switch_symbol"
     /\ returns[r].symbol = returns[r].was.current_symbol) =>
      /\ returns[r].now = returns[r].was
      /\ ~returns[r].cancelled
      /\ returns[r].created = {}

\* switch_symbol was called for the active symbol while tasks were tracked
C15_Witness ==
  \E r \in DOMAIN returns :
    /\ returns[r].op = "switch_symbol"
    /\ returns[r].symbol = returns[r].was.current_symbol
    /\ returns[r].was.tasks # <<>>
    /\ \E t \in Tracked(returns[r].was) : adapterTasks[t].pc = "recv"

\* task t, not cancelled, ends in this step
EndsUncancelled(t) ==
  /\ adapterTasks[t].pc # "done"
  /\ ~adapterTasks[t].cancel
  /\ adapterTasks'[t].pc = "done"

\* C16: when a task ends without having been cancelled (its adapter's
\* sequence ended on an exception), every other task that runs is left as
\* it was, and so is the manager
C16_Isolated ==
  [][\A t \in DOMAIN adapterTasks :
       EndsUncancelled(t) =>
         /\ mgr' = mgr
         /\ \A u \in DOMAIN adapterTasks \ {t} :
              adapterTasks[u].pc # "done" => adapterTasks'[u] = adapterTasks[u]]_vars

\* a task has published a tick after a task created with it had ended on an
\* exception
C16_Witness ==
  \E t \in DOMAIN adapterTasks :
    /\ adapterTasks[t].outlived
    /\ adapterTasks[t].pc = "recv"
    /\ adapterTasks[t].yielded # <<>>

\* C17 as stated: when stop_all_connections() has returned the manager
\* tracks no task, no task runs, and no symbol is active; called with no
\* tracked task it has changed nothing
C17_StopAllClears ==
  \A r \in DOMAIN returns :
    returns[r].op = "stop_all_connections" =>
      /\ returns[r].now.tasks = <<>>
      /\ returns[r].untracked = {}
      /\ returns[r].now.current_symbol = NoSymbol
      /\ returns[r].was.tasks = <<>> => returns[r].now = returns[r].was

\* stop_all_connections() has returned from a manager with an active symbol
\* and no tracked task
C17_Case ==
  \E r \in DOMAIN returns :
    /\ returns[r].op = "stop_all_connections"
    /\ returns[r].was.tasks = <<>>
    /\ returns[r].was.current_symbol # NoSymbol

\* pub is an interleaving of the sequences seqs[t]
RECURSIVE Interleaves(_, _)
Interleaves(pub, seqs) ==
  IF pub = <<>> THEN \A t \in DOMAIN seqs : seqs[t] = <<>>
  ELSE \E t \in DOMAIN seqs :
         /\ seqs[t] # <<>>
         /\ Head(seqs[t]) = Head(pub)
         /\ Interleaves(Tail(pub), [seqs EXCEPT ![t] = Tail(@)])

TransportFailures == {"ConnectionRefusedError", "ConnectionClosedError"}
DecodeFailures == {"JSONDecodeError", "AttributeError", "KeyError", "IndexError"}

\* C19 as stated: a task whose tick sequence ended on a transport failure
\* had made max_tries attempts to connect and subscribe
C19_RetriesUpToMax ==
  \A t \in DOMAIN adapterTasks :
    adapterTasks[t].ended \in TransportFailures =>
      adapterTasks[t].attempts = max_tries

\* a task has ended on the refusal of its first connection attempt
C19_Case ==
  \E t \in DOMAIN adapterTasks :
    /\ adapterTasks[t].ended = "ConnectionRefusedError"
    /\ adapterTasks[t].attempts = 1

\* C20 as stated: no message an adapter cannot decode ends its tick sequence
C20_DecodeFailureNotFatal ==
  \A t \in DOMAIN adapterTasks : adapterTasks[t].ended \notin DecodeFailures

\* a task has ended on a message that is not JSON
C20_Case ==
  \E t \in DOMAIN adapterTasks :
    /\ adapterTasks[t].ended = "JSONDecodeError"
    /\ adapterTasks[t].pc = "done"

(***************************************************************************)
(* C25: a TimeFrameAggregator starts with no bucket open, has one open     *)
(* after its first add_trade and never goes back: after any sequence of    *)
(* add_trade calls with at least one call, a bucket is open and holds at   *)
(* least the last trade.                                                   *)
(***************************************************************************)
C25_NeverEmptyAgain ==
  /\ nAdds = 0 => tfa.current_candle_ts = None /\ tfa.trades = <<>>
  /\ nAdds >= 1 => tfa.current_candle_ts # None /\ tfa.trades # <<>>

\* a bucket is open after a rollover closed an earlier one
C25_Witness ==
  /\ nAdds >= 2
  /\ finalizations # <<>>
  /\ tfa.current_candle_ts # None

(***************************************************************************)
(* C26: a trade whose timestamp is before the start of the open bucket is  *)
(* accepted into that bucket: the bucket stays the same one, nothing is    *)
(* published and no published point changes, and the trade is appended to  *)
(* the bucket's trades, becomes its last price and counts in high and low. *)
(***************************************************************************)
IsLate(self, trade) ==
  /\ self.current_candle_ts # None
  /\ ~DtGE(trade.exchange_timestamp_utc, self.current_candle_ts)

LateAccepted(before, trade, after) ==
  /\ after.current_candle_ts = before.current_candle_ts
  /\ after.open_price = before.open_price
  /\ after.trades = Append(before.trades, << trade.price, trade.size >>)
  /\ after.last_price = trade.price
  /\ DCmp(after.high_price, trade.price) >= 0
  /\ DCmp(after.low_price, trade.price) <= 0
  /\ DCmp(after.high_price, before.high_price) >= 0
  /\ DCmp(after.low_price, before.low_price) <= 0

C26_LateTradeJoinsOpenBucket ==
  [][ (nAdds' = nAdds + 1 /\ IsLate(tfa, Last(bucket')))
        => /\ LateAccepted(tfa, Last(bucket'), tfa')
           /\ published' = published
           /\ queues' = queues
           /\ finalizations' = finalizations
           /\ bucket' = Append(bucket, Last(bucket')) ]_vars

\* the open bucket holds a trade older than its start, after a trade of its
\* own period, and the late trade set a new low or a new high
C26_Witness ==
  /\ tfa.current_candle_ts # None
  /\ Len(bucket) >= 2
  /\ ~DtGE(Last(bucket).exchange_timestamp_utc, tfa.current_candle_ts)
  /\ tfa.trades = QuotesOf(bucket)
  /\ Last(bucket).price \in {tfa.high_price, tfa.low_price}

(***************************************************************************)
(* C27: a TimeFrameAggregator publishes only at bucket finalization: an    *)
(* add_trade call whose trade does not reach the open bucket's end         *)
(* publishes nothing, and one that does publishes at most one point.       *)
(***************************************************************************)
CrossesEnd(self, trade) ==
  /\ self.current_candle_ts # None
  /\ DtGE(trade.exchange_timestamp_utc,
          DtPlus(self.current_candle_ts, self.timeframe_delta))

C27_PublishesOnlyAtFinalization ==
  [][ nAdds' = nAdds + 1
        => IF CrossesEnd(tfa, Last(bucket'))
           THEN /\ Len(published'[AggBus]) <= Len(published[AggBus]) + 1
                /\ \A i \in DOMAIN published[AggBus] :
                     published'[AggBus][i] = published[AggBus][i]
           ELSE /\ published' = published
                /\ queues' = queues ]_vars

\* trades were accepted without a publication, and a crossing published
\* exactly one point
C27_Witness ==
  /\ nAdds = 3
  /\ Len(published[AggBus]) = 1
  /\ Len(finalizations) = 1
  /\ Len(finalizations[1].ticks) + Len(bucket) = 3

(***************************************************************************)
(* C28: add_trade calls on one TimeFrameAggregator never overlap (each     *)
(* call is one entry of the call log, begun and ended before the next),    *)
(* and all the aggregators owned by one SymbolAggregator are given the     *)
(* same ticks in the same order, the order of publication on the raw-trade *)
(* bus.                                                                    *)
(***************************************************************************)
\* the publication numbers of the ticks given to aggregator i, in call order
RECURSIVE NumbersGivenTo(_, _)
NumbersGivenTo(calls, i) ==
  IF calls = <<>> THEN <<>>
  ELSE (IF Head(calls).agg = i THEN << Head(calls).tick.n >> ELSE <<>>)
       \o NumbersGivenTo(Tail(calls), i)

Increasing(ns) == \A a, b \in DOMAIN ns : a < b => ns[a] < ns[b]

C28_SameTicksSameOrder ==
  /\ \A i, j \in DOMAIN sa.aggs :
       NumbersGivenTo(invocations, i) = NumbersGivenTo(invocations, j)
  /\ \A i \in DOMAIN sa.aggs : Increasing(NumbersGivenTo(invocations, i))
  /\ \A c \in DOMAIN invocations :
       /\ invocations[c].tick.n \in DOMAIN published[RawBus]
       /\ invocations[c].tick.msg = published[RawBus][invocations[c].tick.n]

\* both aggregators were given two ticks, and the first of them closed the
\* one-minute bucket on the second tick
C28_Witness ==
  /\ \A i \in DOMAIN sa.aggs : Len(NumbersGivenTo(invocations, i)) = 2
  /\ published[AggBus] # <<>>

(***************************************************************************)
(* C30: stop() flushes nothing: from the moment stop() cancels the         *)
(* processing task, while it waits for the task and after it has returned, *)
(* no point is published on the aggregated-data bus and the bucket that    *)
(* was open at the cancellation stays as it was, unfinalized; this lasts   *)
(* as long as the SymbolAggregator is not started again.                   *)
(***************************************************************************)
Cancelling == saCall = "stopping"
Stopped == saCall = "idle" /\ sa.task = 0 /\ stops # {}

C30_StopFlushesNothing ==
  [][ (Cancelling \/ Stopped)
        => /\ published'[AggBus] = published[AggBus]
           /\ sa'.aggs = sa.aggs ]_vars

\* stop() has returned and the task it cancelled has ended, with a bucket of
\* positive volume open in the one-minute aggregator and nothing published
C30_Witness ==
  /\ Stopped
  /\ sa.aggs[1].current_candle_ts # None
  /\ finalize_and_publish_candle(sa.aggs[1]) # <<>>
  /\ published[AggBus] = <<>>
  /\ \E st \in stops : st.task # 0 /\ runTasks[st.task].pc = "done"

(***************************************************************************)
(* C29: an adapter yields ticks only for trade messages; a subscription    *)
(* acknowledgement, a heartbeat or a ping is skipped: it yields no tick    *)
(* and the adapter goes on to wait for the next message, a ping having     *)
(* been answered.                                                          *)
(***************************************************************************)
\* the messages of an exchange that are well formed and are not trades
OtherMessages(exchange) ==
  RawMessages(exchange) \cap { SubscribeAck, OkxSubscribed, Ping }

Skipped(out) == out.ticks = <<>> /\ out.raised = ""

NowhereSupported ==
  { l \in Labels : \A e \in WithTable : l \notin DOMAIN TableOf(e) }

Unsupported(exchange, timeframe) ==
  \/ timeframe \in NowhereSupported
  \/ exchange \in WithTable /\ timeframe \notin DOMAIN TableOf(exchange)

\* C21 as stated
C21_UnsupportedIsEmpty ==
  (fetch.pc # "idle" /\ Unsupported(fetch.exchange, fetch.timeframe))
    => /\ fetch.request = None
       /\ fetch.pc = "returned"
       /\ fetch.result = <<>>
       /\ fetch.raised = ""

\* BinanceAdapter was asked for "2m" bars, sent the label to the exchange
\* and the refusal left fetch_historical_data as an exception
C21_Case ==
  /\ fetch.exchange = "Binance"
  /\ fetch.timeframe = "2m"
  /\ fetch.request = [param |-> "interval", value |-> "2m"]
  /\ fetch.pc = "raised"
  /\ fetch.raised = "HTTPStatusError"

(***************************************************************************)
(* C24: the construction of the StateManager never fails: with a state     *)
(* file that is missing, unreadable, corrupt or of the wrong shape the     *)
(* state is the built-in default; and after every update_symbol or         *)
(* update_timeframe call on storage that takes writes, the file holds the  *)
(* new state.                                                              *)
(***************************************************************************)
\* the file holds an object whose known fields are strings
WellShaped(file) ==
  /\ file.kind = "file"
  /\ file.content.kind = "dict"
  /\ \A k \in DOMAIN file.content.d \cap DOMAIN AppStateDefault :
       "str" \in DOMAIN file.content.d[k]

\* C24 as stated
C24_NeverFailsAndPersists ==
  /\ sm.pc # "failed"
  /\ (sm.pc = "constructed" /\ sm.updates = 0 /\ ~WellShaped(sm.found))
       => sm.state = AppStateDefault
  /\ (sm.updates > 0 /\ storage.writable)
       => /\ storage.kind = "file"
          /\ load_state(storage) = [raised |-> "", state |-> sm.state]

\* open() refused the state file and the exception left StateManager()
C24_Case ==
  /\ sm.pc = "failed"
  /\ sm.raised = "PermissionError"
  /\ sm.found.kind = "unreadable"

(***************************************************************************)
(* C22: a TimeFrameAggregator asked for with a label whose unit is not     *)
(* recognized or whose value does not parse fails at construction, so that *)
(* no aggregator exists whose first add_trade fails because of its         *)
(* timeframe.                                                              *)
(***************************************************************************)
\* the label ends in a unit the aggregator knows, after an integer
WellFormedLabel(label) ==
  /\ Len(label) >= 2
  /\ label[Len(label)] \in {"m", "h", "d"}
  /\ LET text == SubSeq(label, 1, Len(label) - 1)
     IN  IsDigits(text) \/ (text[1] = "-" /\ IsDigits(Tail(text)))

\* C22 as stated
C22_FailsAtConstruction ==
  /\ (ctor.pc # "none" /\ ~WellFormedLabel(ctor.label)) => ctor.pc = "failed"
  /\ ctor.pc = "added" => ctor.raised = ""

\* TimeFrameAggregator(symbol, "0m") was constructed and its first add_trade
\* raised ZeroDivisionError
C22_Case ==
  /\ ctor.label = << "0", "m" >>
  /\ ctor.pc = "added"
  /\ ctor.raised = "ZeroDivisionError"

(***************************************************************************)
(* C23: every PriceUpdate published on the raw-trade bus is consumed       *)
(* exactly once by exactly one SymbolAggregator, the one whose symbol      *)
(* matches it, across the controller's symbol switches.                    *)
(***************************************************************************)
\* the entries of "accepted" for the n-th PriceUpdate of the raw-trade bus
Consumers(n) == {k \in DOMAIN accepted : accepted[k].tick.n = n}

\* the symbol of the SymbolAggregator whose start() made task r
SymbolOfTask(r) == ctl.started[r]

\* no switch is under way, and every task has ended or waits on an empty
\* queue
Settled ==
  /\ ctl.pc = "idle"
  /\ \A r \in DOMAIN runTasks :
       \/ runTasks[r].pc = "done"
       \/ runTasks[r].pc = "get" /\ queues[runTasks[r].queue].items = <<>>

\* the n-th PriceUpdate was published after task r's aggregator subscribed
\* and before it unsubscribed
PublishedWhileSubscribed(r, n) ==
  /\ registered[runTasks[r].queue].from < n
  /\ \/ registered[runTasks[r].queue].until = -1
     \/ n <= registered[runTasks[r].queue].until

\* C23 as stated: once the switches are over and the queues are drained,
\* every published PriceUpdate has been consumed exactly once, by an
\* aggregator of its symbol
C23_ExactlyOnceAcrossSwitches ==
  Settled =>
    \A n \in DOMAIN published[RawBus] :
      /\ Cardinality(Consumers(n)) = 1
      /\ \A k \in Consumers(n) :
           SymbolOfTask(accepted[k].task) = published[RawBus][n].symbol

\* C23 amended: an aggregator consumes only PriceUpdates of its own symbol
\* that were published while it was subscribed, each one that it takes from
\* its queue exactly once; a PriceUpdate published while no aggregator of
\* its symbol was subscribed, or left in the queue of an aggregator that
\* was stopped, is consumed by none
C23_OncePerSubscribedAggregator ==
  /\ \A k \in DOMAIN accepted :
       /\ accepted[k].tick.msg = published[RawBus][accepted[k].tick.n]
       /\ accepted[k].tick.msg.symbol = SymbolOfTask(accepted[k].task)
       /\ PublishedWhileSubscribed(accepted[k].task, accepted[k].tick.n)
  /\ \A r \in DOMAIN runTasks :
       \A j \in DOMAIN received[runTasks[r].queue] :
         received[runTasks[r].queue][j].msg.symbol = SymbolOfTask(r) =>
           Cardinality({k \in Consumers(received[runTasks[r].queue][j].n) :
                          accepted[k].task = r}) = 1
  /\ \A n \in DOMAIN published[RawBus] :
       (\A r \in DOMAIN runTasks :
          \/ SymbolOfTask(r) # published[RawBus][n].symbol
          \/ ~PublishedWhileSubscribed(r, n)
          \/ /\ runTasks[r].pc = "done"
             /\ \E j \in DOMAIN queues[runTasks[r].queue].items :
                  queues[runTasks[r].queue].items[j].n = n)
       => Consumers(n) = {}

\* after a switch from one symbol to another, with everything drained: one
\* PriceUpdate was consumed by the first aggregator, and a later one of the
\* same symbol, published while that aggregator was subscribed, was consumed
\* by none
C23_Witness ==
  /\ Settled
  /\ Len(ctl.started) = 2
  /\ ctl.started[1] # ctl.started[2]
  /\ \E n, m \in DOMAIN published[RawBus] :
       /\ Cardinality(Consumers(n)) = 1
       /\ \A k \in Consumers(n) : accepted[k].task = 1 /\ OnceOnEach(k)
       /\ published[RawBus][m].symbol = ctl.started[1]
       /\ PublishedWhileSubscribed(1, m)
       /\ Consumers(m) = {}

(***************************************************************************)
(* C31: subscribing and unsubscribing while other tasks publish is safe:   *)
(* under every interleaving no publish fails or skips a subscriber that    *)
(* was registered for the whole of the publish, and the subscriber set is  *)
(* never left inconsistent.                                                *)
(***************************************************************************)
\* the queues that subscribe() handed out on bus p and unsubscribe() has not
\* taken back
Registered(p) ==
  {q \in DOMAIN registered :
     registered[q].bus = p /\ registered[q].until = -1}

\* C31: every publish that has ended raised nothing and put its message on
\* every queue subscribed from its start to its end; a publisher's set
\* holds exactly the queues handed out and not taken back
C31_SafeWhilePublishing ==
  /\ \A k \in DOMAIN pubLog :
       /\ pubLog[k].raised = ""
       /\ pubLog[k].whole \subseteq pubLog[k].served
  /\ \A p \in Publishers : subscribers[p] = Registered(p)

\* three publishes on the raw-trade bus have ended, with a subscribe
\* between the first two and an unsubscribe between the last two: only the
\* second found a queue, and served it
C31_Witness ==
  /\ Len(pubLog) = 3
  /\ \A k \in DOMAIN pubLog : pubLog[k].bus = RawBus
  /\ pubLog[1].served = {}
  /\ Cardinality(pubLog[2].served) = 1
  /\ pubLog[2].whole = pubLog[2].served
  /\ pubLog[3].served = {}
  /\ subscribers[AggBus] = {uiQueue}

(***************************************************************************)
(* C32: under any interleaving of overlapping switch_symbol calls, once    *)
(* all calls have returned every adapter task still running is tracked by  *)
(* the manager and serves the manager's current symbol.                    *)
(***************************************************************************)
\* only switch_symbol has been called, and every call has returned
AllSwitchesReturned ==
  /\ mgrCall = <<>>
  /\ \A r \in DOMAIN returns : returns[r].op = "switch_symbol"

\* C32 as stated
C32_NoTaskLeftUntracked ==
  AllSwitchesReturned =>
    \A t \in Running(adapterTasks) :
      /\ t \in Tracked(mgr)
      /\ adapterTasks[t].symbol = mgr.current_symbol

\* two switch_symbol calls for different symbols waited in the same gather
\* and have returned: a task of the symbol of the first runs, untracked,
\* while the manager serves the symbol of the second
C32_Case ==
  /\ AllSwitchesReturned
  /\ \E r \in DOMAIN returns :
       /\ r > 1
       /\ returns[r].cancelled
       /\ returns[r - 1].cancelled
       /\ returns[r].was = returns[r - 1].was
       /\ returns[r].symbol # returns[r - 1].symbol
       /\ mgr.current_symbol = returns[r].symbol
       /\ \E t \in Untracked(mgr, adapterTasks) :
            adapterTasks[t].symbol = returns[r - 1].symbol

(***************************************************************************)
(* C33: after any sequence of start() and stop() calls on one              *)
(* SymbolAggregator that ends with stop(), no queue made by the aggregator *)
(* is still registered on the raw-trade bus and no task made by it runs.   *)
(***************************************************************************)
\* C33 as stated
C33_NothingLeftAfterStop ==
  Stopped =>
    /\ \A r \in DOMAIN runTasks :
         /\ runTasks[r].pc = "done"
         /\ runTasks[r].queue \notin subscribers[RawBus]
    /\ subscribers[RawBus] = {}

\* start(), start(), stop(): the second task was cancelled and has ended,
\* the first still runs, and its queue is still subscribed
C33_Case ==
  /\ Stopped
  /\ Len(runTasks) = 2
  /\ runTasks[2].pc = "done"
  /\ runTasks[1].pc # "done"
  /\ ~runTasks[1].cancel
  /\ runTasks[1].queue \in subscribers[RawBus]

(***************************************************************************)
(* C34: volume conservation: after any sequence of add_trade calls the     *)
(* sum of cumulative_volume over the published points plus the sum of the  *)
(* sizes in the open bucket equals the sum of the sizes of all trades      *)
(* passed to add_trade; each trade is counted in exactly one bucket.       *)
(***************************************************************************)
\* every trade passed to add_trade so far, in order
RECURSIVE TicksOf(_)
TicksOf(fs) == IF fs = <<>> THEN <<>> ELSE Head(fs).ticks \o TicksOf(Tail(fs))
AllTrades == TicksOf(finalizations) \o bucket

\* the sum of the cumulative_volume fields of the published points
PublishedVolume ==
  ExactSum([k \in DOMAIN published[AggBus] |->
              published[AggBus][k].cumulative_volume])

\* no size is finer than the published format and no bucket's sum was
\* rounded to the context precision
AtFormatResolution ==
  /\ \A k \in DOMAIN AllTrades : AllTrades[k].size.e >= -FormatDigits
  /\ \A i \in DOMAIN finalizations :
       NpSum(SizesOf(QuotesOf(finalizations[i].ticks)))
         = ExactVolume(QuotesOf(finalizations[i].ticks))

\* C34 as stated
C34_VolumeConserved ==
  DAddX(PublishedVolume, ExactVolume(tfa.trades))
    = ExactVolume(QuotesOf(AllTrades))

\* C34 amended: every trade is in exactly one bucket, a finalized one or
\* the open one; a finalized bucket is published once, with its volume
\* rounded to eight decimal places, unless its volume is zero; the volumes
\* add up exactly when no size is finer than eight decimal places and no
\* bucket's sum exceeds the context precision
C34_BucketsPartitionTrades ==
  /\ tfa.trades = QuotesOf(bucket)
  /\ Len(AllTrades) = nAdds
  /\ published[AggBus] = PointsOf(finalizations)
  /\ \A i \in DOMAIN finalizations :
       LET volume == NpSum(SizesOf(QuotesOf(finalizations[i].ticks)))
           points == finalizations[i].points
       IN  IF DCmp(volume, Zero) = 0 THEN points = <<>>
           ELSE /\ Len(points) = 1
                /\ points[1].cumulative_volume = DFormat(volume)
  /\ AtFormatResolution => C34_VolumeConserved

\* two buckets were published and a third is open, every size at the
\* format's resolution and none zero
C34_Witness ==
  /\ Len(published[AggBus]) = 2
  /\ tfa.trades # <<>>
  /\ AtFormatResolution
  /\ \A k \in DOMAIN AllTrades : AllTrades[k].size # Zero

(***************************************************************************)
(* C35: the bucket-start timestamps of the points one TimeFrameAggregator  *)
(* publishes are strictly increasing, for every input order of the trade   *)
(* timestamps: none is published twice and none goes backwards.            *)
(***************************************************************************)
\* C35
C35_BucketStartsIncrease ==
  \A i, j \in DOMAIN published[AggBus] :
    i < j => ~DtGE(published[AggBus][i].timestamp_utc,
                   published[AggBus][j].timestamp_utc)

\* a trade older than its bucket's start was taken after a point had been
\* published, and a second point has been published since
C35_Witness ==
  /\ Len(published[AggBus]) = 2
  /\ \E k \in DOMAIN finalizations[2].ticks :
       ~DtGE(finalizations[2].ticks[k].exchange_timestamp_utc,
             published[AggBus][2].timestamp_utc)

(***************************************************************************)
(* C36: an exception raised by add_trade while a tick is processed does    *)
(* not end the SymbolAggregator's loop: the loop keeps running, the next   *)
(* queued tick is still dequeued and distributed, and only cancellation    *)
(* ends the loop.                                                          *)
(***************************************************************************)
\* the k-th caught exception left its task running: the task has since
\* taken every tick it found in its queue, or holds one in hand, or was
\* cancelled
WentOn(k) ==
  \/ runTasks[caught[k].task].cancel
  \/ runTasks[caught[k].task].pc \in {"gather", "gathered"}
  \/ /\ runTasks[caught[k].task].pc = "get"
     /\ \A j \in DOMAIN received[runTasks[caught[k].task].queue] :
          LET item == received[runTasks[caught[k].task].queue][j]
          IN  (item.n > caught[k].tick.n /\ ~Malformed(item.msg)) =>
                \E a \in DOMAIN accepted :
                  /\ accepted[a].task = caught[k].task
                  /\ accepted[a].tick = item
                  /\ OnceOnEach(a)

\* C36: a task that has ended was cancelled, and after every exception it
\* caught the task went on
C36_ExceptionDoesNotEndLoop ==
  /\ \A r \in DOMAIN runTasks : runTasks[r].pc = "done" => runTasks[r].cancel
  /\ \A k \in DOMAIN caught : WentOn(k)

\* the task caught the exception of one tick, then took the next tick and
\* passed it to every aggregator, and nobody has called stop()
C36_Witness ==
  \E k \in DOMAIN caught : \E a \in DOMAIN accepted :
    /\ accepted[a].task = caught[k].task
    /\ accepted[a].tick.n > caught[k].tick.n
    /\ OnceOnEach(a)
    /\ ~runTasks[caught[k].task].cancel
    /\ stops = {}

(***************************************************************************)
(* C37: a terminated adapter is never restarted by the manager: once a    *)
(* supervising task for the active symbol S has ended, no new task for     *)
(* that exchange is created until the active symbol changes, and           *)
(* switch_symbol(S) stays a no-op even when every supervising task for S   *)
(* has ended.                                                              *)
(***************************************************************************)
\* the tasks of the active symbol that have ended without being cancelled
EndedOfActive ==
  { t \in Tracked(mgr) : /\ adapterTasks[t].symbol = mgr.current_symbol
                         /\ adapterTasks[t].pc = "done"
                         /\ adapterTasks[t].ended # "CancelledError" }

\* this step is a call of switch_symbol for the active symbol that returns
SameSymbolCall ==
  /\ Len(returns') = Len(returns) + 1
  /\ returns'[Len(returns')].op = "switch_symbol"
  /\ returns'[Len(returns')].symbol = mgr.current_symbol
  /\ returns'[Len(returns')].was = mgr

\* C37: while the active symbol stays what it is, a step creates no task,
\* for no exchange; and a call switch_symbol(S) made when every task of the
\* active symbol S has ended changes neither the manager nor any task
C37_NoRestart ==
  [][ /\ (mgr.current_symbol # NoSymbol /\
          mgr'.current_symbol = mgr.current_symbol) =>
           DOMAIN adapterTasks' = DOMAIN adapterTasks
      /\ (SameSymbolCall /\ mgr.tasks # <<>> /\ EndedOfActive = Tracked(mgr)) =>
           (mgr' = mgr /\ adapterTasks' = adapterTasks) ]_vars

\* every task of the active symbol has ended on a failure of its own, none
\* was cancelled, switch_symbol for that symbol has returned last, and the
\* manager still tracks the ended tasks and no others
C37_Witness ==
  /\ mgr.tasks # <<>>
  /\ EndedOfActive = Tracked(mgr)
  /\ mgrCall = <<>>
  /\ returns # <<>>
  /\ returns[Len(returns)].op = "switch_symbol"
  /\ returns[Len(returns)].symbol = mgr.current_symbol
  /\ returns[Len(returns)].was = mgr
  /\ returns[Len(returns)].created = {}
  /\ Running(adapterTasks) = {}

(***************************************************************************)
(* C38: liveness of the pipeline: under weak fairness and with no stop()   *)
(* call, every tick with the aggregator's symbol published on the          *)
(* raw-trade bus after SymbolAggregator.start() is eventually passed to    *)
(* add_trade of every owned TimeFrameAggregator; no such tick is lost      *)
(* between publish and aggregation.                                        *)
(***************************************************************************)
\* the n-th message of the raw-trade bus has the aggregator's symbol and was
\* published after start() subscribed
PublishedAfterStart(n) ==
  /\ sa.subscriber_queue # 0
  /\ n \in DOMAIN published[RawBus]
  /\ n > registered[sa.subscriber_queue].from
  /\ published[RawBus][n].symbol = sa.symbol

\* add_trade has been invoked with the n-th message on every owned aggregator
Aggregated(n) ==
  \A i \in DOMAIN sa.aggs :
    \E k \in DOMAIN invocations :
      /\ invocations[k].agg = i
      /\ invocations[k].tick.n = n
      /\ invocations[k].tick.msg = published[RawBus][n]

\* C38: a matching tick published after start() leads to its add_trade on
\* every owned aggregator
C38_PipelineLive ==
  \A n \in 1..MaxTicks : PublishedAfterStart(n) ~> Aggregated(n)

\* two matching ticks were published after start(), the second while the
\* first was not yet aggregated, and both have reached every aggregator
C38_Witness ==
  /\ Len(published[RawBus]) >= 2
  /\ PublishedAfterStart(1) /\ Aggregated(1)
  /\ PublishedAfterStart(2) /\ Aggregated(2)
  /\ \E k \in DOMAIN accepted :
       /\ accepted[k].tick.n = 1
       /\ \E j \in DOMAIN received[sa.subscriber_queue] :
            received[sa.subscriber_queue][j].n = 2

====
